---- MODULE Spec2Model ----
(***************************************************************************)
(* Model of the managers behind the PeerRoom facade of chat-p2p:           *)
(*   Spec            PeerVerificationManager: the challenge-response state *)
(*                   machine, its sessions, key registry and timers        *)
(*   FairSpec        the same, with pending timers that fire               *)
(*   StreamSpec      StreamManager: the attach queue and its draining loop *)
(*   FairStreamSpec  the same, with started tasks that settle              *)
(*   DrainSpec       the same, with tasks that all resolve, no cleanup     *)
(*   ActionSpec      ActionManager: the memo table of action tuples        *)
(*   EventSpec       EventManager: lifecycle handlers by hook type         *)
(*   ConnectionSpec  ConnectionManager: one getPeerConnectionTypes call    *)
(*   ClassifySpec    the classification of one statistics report           *)
(*   ChannelSpec     ActionManager over the room's channels: one receive   *)
(*                   handler per action name                               *)
(*   LeaveSpec       PeerRoom.leave over a room whose managers are in use  *)
(*   ValidationSpec  RTCValidationManager: the two validators and the      *)
(*                   configuration the PeerRoom constructor passes on      *)
(* Each specification but LeaveSpec moves one manager and leaves the       *)
(* others as built.                                                        *)
(*                                                                         *)
(* Everything runs on a single-threaded event loop: every handler runs to  *)
(* completion and a method that awaits is one step per stretch between     *)
(* awaits.  initiateVerification suspends once, at the await of            *)
(* encryption.encryptString, and is therefore two steps.  Remote peers are  *)
(* the environment: what they send arrives as the arguments of the two     *)
(* receive handlers.  A remote peer can put a token in a response only if  *)
(* it decrypted it from a request that was sent to it.                     *)
(***************************************************************************)
EXTENDS Integers, FiniteSets, Sequences, TLC

\* ---------------------------------------------------------------- bounds
\* Number of initiateVerification calls in a behaviour.
MaxInit == 2

\* Remote peers of the room, the key pairs they hold, and the local key pair.
Peers == {"p1", "p2"}
PublicKeys == {"k1", "k2"}
LocalKey == "k0"
PrivateKeyOf(peerId) == IF peerId = "p1" THEN "k1" ELSE "k2"

\* A request id, a token or a timer handle that the engine never generates.
Unknown == MaxInit + 1

\* ------------------------------------------------------ PeerVerificationState
VERIFYING == "VERIFYING"
VERIFIED == "VERIFIED"
UNVERIFIED == "UNVERIFIED"

Null == "null"

VARIABLES
    verificationMap,     \* peerId -> PeerVerificationMetadata
    publicKeyMap,        \* peerId -> CryptoKey
    timers,              \* pending timer handle -> the peerId its callback captured
    pendingEncrypt,      \* initiateVerification calls suspended at encryptString
    nextId,              \* number of tokens / request ids generated so far
    sentEncryptedToken,  \* requests handed to sendEncryptedToken
    sentRawToken,        \* responses handed to sendRawToken
    expired,             \* peers whose stored session left VERIFYING by its own timer
    superseded,          \* pending handles whose session was replaced while VERIFYING
    last                 \* the call that ran last, with its arguments and its exception

vars == <<verificationMap, publicKeyMap, timers, pendingEncrypt, nextId,
          sentEncryptedToken, sentRawToken, expired, superseded, last>>

\* ----------------------------------------------------------- StreamManager
\* Number of addStream calls in a behaviour.
MaxAdd == 3

Streams == {"s1", "s2"}

VARIABLES
    streamQueue,                 \* the tasks not yet started, in queue order
    isProcessingPendingStreams,  \* the processing flag
    taskStatus,                  \* task -> "queued", "running", "done", "failed" or "dropped"
    addCalls,                    \* number of addStream calls so far
    streamLast                   \* the StreamManager call that ran last

streamVars == <<streamQueue, isProcessingPendingStreams, taskStatus, addCalls, streamLast>>

\* ----------------------------------------------------------- ActionManager
\* Number of handle tuples created in a behaviour.
MaxHandles == 3

Namespaces == {"g", "dm"}
PeerActions == {"MESSAGE", "PEER_META"}
\* Every member of enum PeerAction.
PeerActionValues ==
    {"MESSAGE", "MEDIA_MSG", "PEER_META", "AUDIO_CHG", "VIDEO_CHG", "SCREEN_SHR",
     "FILE_OFFER", "TYPING_STS", "MSG_TRANS", "VERIFY_REQ", "VERIFY_RES",
     "NAME_CHG", "ROOM_JOIN", "ROOM_LEAVE"}

VARIABLES
    actions,       \* the memo table: action name -> handle tuple
    tuples,       \* handle tuple -> the name its cleanup closure captured, and its arguments
    roomActions,   \* action name -> number of room.makeAction calls
    undisposed,    \* <<action, namespace>> -> the handle returned for it since its last dispose
    actionLast     \* the ActionManager call that ran last

actionVars == <<actions, tuples, roomActions, undisposed, actionLast>>

\* ------------------------------------------------------------ EventManager
\* Number of handler registrations held at a time.
MaxRegistrations == 3

HookTypes == {"NEW_PEER", "STREAM", "FILE_SHARE"}
Handlers == {"h1", "h2"}
PeerStreamTypes == {"AUDIO", "VIDEO"}

VARIABLES
    peerJoinHandlers,    \* hookType -> set of handlers
    peerLeaveHandlers,   \* hookType -> set of handlers
    peerStreamHandlers,  \* hookType -> set of handlers
    eventLast            \* the EventManager call that ran last, with the handler calls it made

eventVars == <<peerJoinHandlers, peerLeaveHandlers, peerStreamHandlers, eventLast>>

\* -------------------------------------------------------- ConnectionManager
\* Number of candidate pairs in a statistics report.
MaxPairs == 2

\* PeerConnectionType
DIRECT == "DIRECT"
RELAY == "RELAY"

CandidateIds == {"c1", "c2"}
CandidateTypes == {"host", "relay"}
PairStates == {"succeeded", "in-progress"}

VARIABLES
    roomPeers,        \* the peers room.getPeers() returns
    callState,        \* the promise of the getPeerConnectionTypes call: "idle" before a call
    callPeers,        \* the peers the call read
    statsPending,     \* the peers of the call whose getStats promise is not settled
    peerConnections,  \* the record the call fills in
    connectionLast,   \* the ConnectionManager step that ran last
    statsReport,      \* a statistics report handed to the classification on its own
    classification    \* the type the classification gave it (Null: not yet)

connectionVars == <<roomPeers, callState, callPeers, statsPending, peerConnections,
                    connectionLast>>

classifyVars == <<statsReport, classification>>

\* ------------------------------------------------ the transport's channels
\* The handlers callers hand to the receive member of a handle tuple.
ReceiveHandlers == {"r1", "r2"}

VARIABLES
    receivers,    \* action name -> the handlers the transport calls for a payload of that name
    channelLast   \* the transport step that ran last, with the handlers it called

channelVars == <<receivers, channelLast>>

\* ----------------------------------------------------- RTCValidationManager
\* Number of entries of an iceServers array.
MaxServers == 1

VARIABLES
    rtcConfig,   \* the value handed over as config.rtcConfig / as data
    rtcResult    \* what the call that ran last made of it

rtcVars == <<rtcConfig, rtcResult>>

\* The state of the other managers of the room, as seen from each manager.
exceptVerification ==
    <<streamVars, actionVars, eventVars, connectionVars, classifyVars,
      channelVars, rtcVars>>
exceptStreams ==
    <<vars, actionVars, eventVars, connectionVars, classifyVars,
      channelVars, rtcVars>>
exceptActions ==
    <<vars, streamVars, eventVars, connectionVars, classifyVars,
      channelVars, rtcVars>>
exceptEvents ==
    <<vars, streamVars, actionVars, connectionVars, classifyVars,
      channelVars, rtcVars>>
exceptConnections ==
    <<vars, streamVars, actionVars, eventVars, classifyVars,
      channelVars, rtcVars>>
exceptChannels ==
    <<vars, streamVars, actionVars, eventVars, connectionVars, classifyVars,
      rtcVars>>
exceptValidation ==
    <<vars, streamVars, actionVars, eventVars, connectionVars, classifyVars,
      channelVars>>
exceptClassify ==
    <<vars, streamVars, actionVars, eventVars, connectionVars,
      channelVars, rtcVars>>

\* ------------------------------------------------------------ Map helpers
MapSet(m, k, v) == [x \in DOMAIN m \cup {k} |-> IF x = k THEN v ELSE m[x]]
MapDelete(m, k) == [x \in DOMAIN m \ {k} |-> m[x]]
EmptyMap == [x \in {} |-> Null]

\* ------------------------------------------------------- crypto primitives
\* RSA-OAEP: the ciphertext of a plaintext under a public key; only the paired
\* private key decrypts it, any other key makes crypto.subtle.decrypt reject.
encryptString(publicKey, plaintext) == [key |-> publicKey, plain |-> plaintext]
CanDecrypt(privateKey, encryptedData) == encryptedData.key = privateKey
decryptString(privateKey, encryptedData) == encryptedData.plain

arrayBufferToBase64(buffer) == <<"b64", buffer>>
base64ToArrayBuffer(base64) == base64[2]

\* The stub of the engine: no private key is ever injected.
getPrivateKey == Null

\* crypto.getRandomValues / Date.now + Math.random: the n-th generated value.
\* Tokens and request ids are different strings.
generateToken(n) == Unknown + n
generateRequestId(n) == n

\* ------------------------------------------------------------------ timers
\* Faulty variant: the timer is never armed.
setTimeoutNotArmed(t, handle, peerId) == t

\* A handle leaves the table when its callback runs or when it is cleared;
\* clearing a handle that is no longer pending does nothing.
setTimeout(t, handle, peerId) == MapSet(t, handle, peerId)
clearTimeout(t, handle) == MapDelete(t, handle)

\* ------------------------------------------------------------- queries
\* Faulty variant: the state is written to every stored session.
setVerificationStateOfAll(vm, peerId, state) ==
    IF peerId \in DOMAIN vm
    THEN [p \in DOMAIN vm |-> [vm[p] EXCEPT !.state = state]]
    ELSE vm

setVerificationState(vm, peerId, state) ==
    IF peerId \in DOMAIN vm
    THEN [vm EXCEPT ![peerId].state = state]
    ELSE vm

\* Faulty variant: an absent session reads as VERIFYING.
getVerificationStateNoDefault(peerId) ==
    IF peerId \in DOMAIN verificationMap THEN verificationMap[peerId].state ELSE VERIFYING

getVerificationState(peerId) ==
    IF peerId \in DOMAIN verificationMap THEN verificationMap[peerId].state ELSE UNVERIFIED

isVerified(peerId) == getVerificationState(peerId) = VERIFIED

getVerifiedPeers == {peerId \in DOMAIN verificationMap : verificationMap[peerId].state = VERIFIED}

\* Faulty variant: every stored peer is pushed, whatever its state.
RECURSIVE verifiedUnfiltered(_, _)
verifiedUnfiltered(vm, peerIds) ==
    IF peerIds = {} THEN <<>>
    ELSE LET peerId == CHOOSE p \in peerIds : TRUE
         IN  <<peerId>> \o verifiedUnfiltered(vm, peerIds \ {peerId})

\* The array getVerifiedPeers builds: verificationMap.forEach over the entries
\* still to visit, pushing the peerId of each entry whose state is VERIFIED.
RECURSIVE verified(_, _)
verified(vm, peerIds) ==
    IF peerIds = {} THEN <<>>
    ELSE LET peerId == CHOOSE p \in peerIds : TRUE
         IN  (IF vm[peerId].state = VERIFIED THEN <<peerId>> ELSE <<>>)
                 \o verified(vm, peerIds \ {peerId})

\* ------------------------------------------------------------- the log
\* op, peerId, requestId, token: the call and its arguments; timer: the handle
\* the call armed or ran; exc: the exception that reached the
\* caller; removed: what getVerificationState(peerId) was when removePeer started.
Call(op, peerId, requestId, token, timer, exc) ==
    [op |-> op, peerId |-> peerId, requestId |-> requestId, token |-> token,
     timer |-> timer, exc |-> exc,
     removed |-> IF op = "removePeer" THEN getVerificationState(peerId) ELSE Null]

\* new StreamManager(room)
StreamManagerInit ==
    /\ streamQueue = <<>>
    /\ isProcessingPendingStreams = FALSE
    /\ taskStatus = EmptyMap
    /\ addCalls = 0
    /\ streamLast = [op |-> "new", stream |-> Null, task |-> {}, started |-> {},
                     detached |-> {}]

\* Faulty variant: the namespace is not part of the name.
actionNameWithoutNamespace(namespace, action) == action

\* `${namespace}.${action}`
actionName(namespace, action) == namespace \o "." \o action

ActionNames == {actionName(n, a) : n \in Namespaces, a \in PeerActions}

ActionCall(op, name, args, handle, created) ==
    [op |-> op, name |-> name, args |-> args, handle |-> handle, created |-> created]

\* new ActionManager(room)
ActionManagerInit ==
    /\ actions = EmptyMap
    /\ tuples = EmptyMap
    /\ roomActions = [n \in ActionNames |-> 0]
    /\ undisposed = EmptyMap
    /\ actionLast = ActionCall("new", Null, <<>>, 0, FALSE)

EventCall(op, hookType, handler, args, invoked) ==
    [op |-> op, hookType |-> hookType, handler |-> handler, args |-> args,
     invoked |-> invoked]

\* new EventManager()
EventManagerInit ==
    /\ peerJoinHandlers = EmptyMap
    /\ peerLeaveHandlers = EmptyMap
    /\ peerStreamHandlers = EmptyMap
    /\ eventLast = EventCall("new", Null, Null, <<>>, <<>>)

\* A transport step: the handlers it called, or (for a registration) the
\* handlers that were registered for the name before it.
ChannelCall(op, name, handler, delivered) ==
    [op |-> op, name |-> name, handler |-> handler, delivered |-> delivered,
     replaced |-> IF op = "receive" /\ name \in DOMAIN receivers
                  THEN receivers[name] ELSE {}]

\* joinRoom(...): a room on which no receive handler is registered
RoomInit ==
    /\ receivers = EmptyMap
    /\ channelLast = ChannelCall("new", Null, Null, {})

\* A statistics report without entries.
NoStats == [pairs |-> <<>>, candidates |-> EmptyMap]

\* A ConnectionManager step, with the peers that had an entry in the record
\* the call before the current one returned.
ConnectionCall(op, peerId) ==
    [op |-> op, peerId |-> peerId,
     earlier |-> IF op = "getPeerConnectionTypes"
                 THEN IF callState = "fulfilled" THEN DOMAIN peerConnections ELSE {}
                 ELSE IF op = "new" THEN {} ELSE connectionLast.earlier]

\* new ConnectionManager(room), in a room without peers
ConnectionManagerInit ==
    /\ roomPeers = {}
    /\ callState = "idle"
    /\ callPeers = {}
    /\ statsPending = {}
    /\ peerConnections = EmptyMap
    /\ connectionLast = ConnectionCall("new", Null)

\* new PeerVerificationManager(...)
PeerVerificationManagerInit ==
    /\ verificationMap = EmptyMap
    /\ publicKeyMap = EmptyMap
    /\ timers = EmptyMap
    /\ pendingEncrypt = {}
    /\ nextId = 0
    /\ sentEncryptedToken = {}
    /\ sentRawToken = {}
    /\ expired = {}
    /\ superseded = {}
    /\ last = Call("new", Null, Unknown, Unknown, Unknown, "none")

\* ========================================================= RTCValidationManager
\* A JavaScript value, as far as the validators look at it: its typeof (with
\* "null" and "array" told apart from "object"), and its number or its string.
JsValue(type, n, s) == [type |-> type, n |-> n, s |-> s]
Undefined == JsValue("undefined", 0, "")
JsNumber(n) == JsValue("number", n, "")
JsString(s) == JsValue("string", 0, s)

\* A URL value.  A string is kept as the segments its colons separate:
\* "stun:host:3478" is <<"stun", "host", "3478">>.
UrlString(segs) == [type |-> "string", segs |-> segs]
UrlNumber == [type |-> "number", segs |-> <<>>]

VALID_PROTOCOLS == {"stun", "turn", "turns"}
VALID_ICE_TRANSPORT_POLICIES == {"all", "relay"}
VALID_BUNDLE_POLICIES == {"balanced", "max-compat", "max-bundle"}
VALID_RTCP_MUX_POLICIES == {"negotiate", "require"}
VALID_CREDENTIAL_TYPES == {"password", "oauth"}
MIN_ICE_CANDIDATE_POOL_SIZE == 0
MAX_ICE_CANDIDATE_POOL_SIZE == 255

\* The segments that consist of digits only.
DigitSegments == {"19302", "3478"}

\* url.length === 0
EmptyString(segs) == segs = <<>> \/ segs = <<"">>

\* VALID_PROTOCOLS.some(protocol => url.startsWith(protocol)), each protocol
\* ending with its colon
hasValidProtocol(segs) == Len(segs) >= 2 /\ segs[1] \in VALID_PROTOCOLS

\* /^(stun|turns?):[^:]+:\d+$/
urlPattern(segs) ==
    /\ Len(segs) = 3
    /\ segs[1] \in {"stun", "turn", "turns"}
    /\ segs[2] # ""
    /\ segs[3] \in DigitSegments

\* /^(stun|turns?):[^:]+$/
simplePattern(segs) ==
    /\ Len(segs) = 2
    /\ segs[1] \in {"stun", "turn", "turns"}
    /\ segs[2] # ""

isValidIceServerUrl(url) ==
    IF url.type # "string" \/ EmptyString(url.segs) THEN FALSE
    ELSE IF ~hasValidProtocol(url.segs) THEN FALSE
    ELSE IF ~urlPattern(url.segs) THEN simplePattern(url.segs)
    ELSE TRUE

\* The urls member of a server: absent, one string, or an array.
UrlsValue(type, items) == [type |-> type, items |-> items]
NoUrls == UrlsValue("undefined", <<>>)

\* !server.urls
urlsFalsy(urls) ==
    \/ urls.type = "undefined"
    \/ urls.type = "string" /\ EmptyString(urls.items[1].segs)

\* A server: null, or an object with the members the validators read.
IceServer(urls, username, credential, credentialType) ==
    [type |-> "object", urls |-> urls, username |-> username,
     credential |-> credential, credentialType |-> credentialType]
NullServer ==
    [type |-> "null", urls |-> NoUrls, username |-> Undefined,
     credential |-> Undefined, credentialType |-> Undefined]

isValidIceServer(server) ==
    IF server.type # "object" THEN FALSE
    ELSE IF urlsFalsy(server.urls) THEN FALSE
    ELSE IF ~(\A i \in 1..Len(server.urls.items) :
                 isValidIceServerUrl(server.urls.items[i])) THEN FALSE
    ELSE IF server.username.type \notin {"undefined", "string"} THEN FALSE
    ELSE IF server.credential.type \notin {"undefined", "string"} THEN FALSE
    ELSE IF /\ server.credentialType.type # "undefined"
            /\ ~( /\ server.credentialType.type = "string"
                  /\ server.credentialType.s \in VALID_CREDENTIAL_TYPES ) THEN FALSE
    ELSE TRUE

\* The iceServers member: absent, an array, or something else.
IceServersValue(type, items) == [type |-> type, items |-> items]

\* A value handed over as a configuration: undefined, null, a string, or an
\* object with the members the validators read.
RTCConfiguration(iceServers, iceTransportPolicy, bundlePolicy, rtcpMuxPolicy, iceCandidatePoolSize) ==
    [type |-> "object", iceServers |-> iceServers,
     iceTransportPolicy |-> iceTransportPolicy, bundlePolicy |-> bundlePolicy,
     rtcpMuxPolicy |-> rtcpMuxPolicy, iceCandidatePoolSize |-> iceCandidatePoolSize]
NotAnObject(type) == [type |-> type]

\* policy !== undefined && !VALID.includes(policy)
invalidPolicy(policy, valid) ==
    policy.type # "undefined" /\ ~(policy.type = "string" /\ policy.s \in valid)

invalidPoolSize(size) ==
    /\ size.type # "undefined"
    /\ \/ size.type # "number"
       \/ size.n < MIN_ICE_CANDIDATE_POOL_SIZE
       \/ size.n > MAX_ICE_CANDIDATE_POOL_SIZE

isValidRTCConfiguration(data) ==
    IF data.type # "object" THEN FALSE
    ELSE IF data.iceServers.type # "array" THEN FALSE
    ELSE IF Len(data.iceServers.items) = 0 THEN FALSE
    ELSE IF \E i \in 1..Len(data.iceServers.items) :
               ~isValidIceServer(data.iceServers.items[i]) THEN FALSE
    ELSE IF invalidPolicy(data.iceTransportPolicy, VALID_ICE_TRANSPORT_POLICIES) THEN FALSE
    ELSE IF invalidPolicy(data.bundlePolicy, VALID_BUNDLE_POLICIES) THEN FALSE
    ELSE IF invalidPolicy(data.rtcpMuxPolicy, VALID_RTCP_MUX_POLICIES) THEN FALSE
    ELSE IF invalidPoolSize(data.iceCandidatePoolSize) THEN FALSE
    ELSE TRUE

\* if (value) sanitized.member = value
truthyOrAbsent(value) ==
    IF \/ value.type \in {"undefined", "null"}
       \/ value.type = "string" /\ value.s = ""
       \/ value.type = "number" /\ value.n = 0
    THEN Undefined ELSE value

\* null is the record NotAnObject("null").
sanitizeRTCConfiguration(data) ==
    IF ~isValidRTCConfiguration(data) THEN NotAnObject("null")
    ELSE RTCConfiguration(
             IceServersValue("array", SelectSeq(data.iceServers.items, isValidIceServer)),
             truthyOrAbsent(data.iceTransportPolicy),
             truthyOrAbsent(data.bundlePolicy),
             truthyOrAbsent(data.rtcpMuxPolicy),
             IF data.iceCandidatePoolSize.type = "number"
             THEN data.iceCandidatePoolSize ELSE Undefined)

createDefaultRTCConfiguration ==
    RTCConfiguration(
        IceServersValue("array",
            <<IceServer(UrlsValue("array",
                            <<UrlString(<<"stun", "stun.l.google.com", "19302">>),
                              UrlString(<<"stun", "stun1.l.google.com", "19302">>)>>),
                        Undefined, Undefined, Undefined)>>),
        Undefined, Undefined, Undefined, Undefined)

ValidationError(type, field, index) == [type |-> type, field |-> field, index |-> index]

ValidationResult(valid, errors) == [valid |-> valid, errors |-> errors]

\* The errors data.iceServers.forEach pushes, in the order of the array.
RECURSIVE iceServerErrors(_, _)
iceServerErrors(items, index) ==
    IF index > Len(items) THEN <<>>
    ELSE ( IF isValidIceServer(items[index]) THEN <<>>
           ELSE <<ValidationError("INVALID_ICE_SERVER", "iceServers", index)>> )
         \o iceServerErrors(items, index + 1)

validateRTCConfiguration(data) ==
    IF data.type # "object"
    THEN ValidationResult(FALSE, <<ValidationError("INVALID_TYPE", Null, 0)>>)
    ELSE IF data.iceServers.type \in {"undefined", "null"}
    THEN ValidationResult(FALSE, <<ValidationError("MISSING_ICE_SERVERS", "iceServers", 0)>>)
    ELSE IF data.iceServers.type # "array"
    THEN ValidationResult(FALSE, <<ValidationError("INVALID_TYPE", "iceServers", 0)>>)
    ELSE IF Len(data.iceServers.items) = 0
    THEN ValidationResult(FALSE, <<ValidationError("EMPTY_ICE_SERVERS", "iceServers", 0)>>)
    ELSE LET errors ==
                 iceServerErrors(data.iceServers.items, 1)
                 \o ( IF invalidPolicy(data.iceTransportPolicy, VALID_ICE_TRANSPORT_POLICIES)
                      THEN <<ValidationError("INVALID_POLICY", "iceTransportPolicy", 0)>>
                      ELSE <<>> )
                 \o ( IF invalidPoolSize(data.iceCandidatePoolSize)
                      THEN <<ValidationError("INVALID_POOL_SIZE", "iceCandidatePoolSize", 0)>>
                      ELSE <<>> )
         IN  ValidationResult(errors = <<>>, errors)

\* Faulty variant: a configuration that was handed over is passed on as it is.
validatedRtcConfigUnchecked(config) ==
    IF config.type \in {"undefined", "null"}
    THEN createDefaultRTCConfiguration
    ELSE config

\* The first part of the PeerRoom constructor: the configuration it passes to
\* joinRoom.  sanitized || default takes the default when sanitized is null.
validatedRtcConfig(config) ==
    IF config.type \in {"undefined", "null"}
    THEN createDefaultRTCConfiguration
    ELSE IF ~isValidRTCConfiguration(config)
         THEN LET sanitized == sanitizeRTCConfiguration(config)
              IN  IF sanitized.type = "null" THEN createDefaultRTCConfiguration
                  ELSE sanitized
         ELSE config

\* ---- the values the validators are given
UrlValues ==
    { UrlString(<<"stun", "stun.l.google.com", "19302">>),
      UrlString(<<"turn", "relay.example">>),
      UrlString(<<"http", "//relay.example">>),
      UrlString(<<"stun", "relay.example", "port">>),
      UrlString(<<"stun">>),
      UrlString(<<"">>),
      UrlNumber }

UrlsValues ==
    {NoUrls}
    \cup {UrlsValue("string", <<u>>) : u \in {v \in UrlValues : v.type = "string"}}
    \cup {UrlsValue("array", <<>>),
          UrlsValue("array", <<UrlNumber>>),
          UrlsValue("array", <<UrlString(<<"stun", "stun.l.google.com", "19302">>),
                               UrlString(<<"stun", "stun1.l.google.com", "19302">>)>>),
          UrlsValue("array", <<UrlString(<<"turns", "relay.example", "3478">>),
                               UrlString(<<"http", "//relay.example">>)>>)}

IceServers ==
    {NullServer}
    \cup {IceServer(urls, Undefined, Undefined, Undefined) : urls \in UrlsValues}
    \cup {IceServer(UrlsValue("string", <<UrlString(<<"turn", "relay.example">>)>>),
                    username, credential, credentialType) :
             username \in {Undefined, JsString("user"), JsNumber(7)},
             credential \in {Undefined, JsNumber(7)},
             credentialType \in {Undefined, JsString("password"), JsString("token")}}

RECURSIVE ArraysUpTo(_, _)
ArraysUpTo(set, n) ==
    IF n = 0 THEN {<<>>}
    ELSE LET shorter == ArraysUpTo(set, n - 1)
         IN  shorter \cup {Append(q, x) : q \in shorter, x \in set}

IceServersValues ==
    {IceServersValue("undefined", <<>>), IceServersValue("string", <<>>)}
    \cup {IceServersValue("array", items) : items \in ArraysUpTo(IceServers, MaxServers)}

\* The configurations over the given values of their iceServers member.
RTCConfigurations(iceServersValues) ==
    {NotAnObject(type) : type \in {"undefined", "null", "string"}}
    \cup {RTCConfiguration(iceServers, iceTransportPolicy, bundlePolicy, rtcpMuxPolicy,
                           iceCandidatePoolSize) :
             iceServers \in iceServersValues,
             iceTransportPolicy \in {Undefined, JsString("relay"), JsString("none")},
             bundlePolicy \in {Undefined, JsString("max-bundle"), JsString("none")},
             rtcpMuxPolicy \in {Undefined, JsString("require"), JsString("none")},
             iceCandidatePoolSize \in {Undefined, JsNumber(0), JsNumber(255),
                                       JsNumber(256), JsString("8")}}

RtcCall(op, config, valid, errors) ==
    [op |-> op, config |-> config, valid |-> valid, errors |-> errors]

\* Nothing was handed over and nothing was called.
RtcInit ==
    /\ rtcConfig = NotAnObject("undefined")
    /\ rtcResult = RtcCall("none", NotAnObject("undefined"), FALSE, <<>>)

\* The managers a PeerRoom constructs.
ManagersInit ==
    /\ PeerVerificationManagerInit
    /\ StreamManagerInit
    /\ ActionManagerInit
    /\ EventManagerInit
    /\ ConnectionManagerInit
    /\ RoomInit

Init ==
    /\ ManagersInit
    /\ statsReport = NoStats
    /\ classification = Null
    /\ RtcInit

\* --------------------------------------------------------------- actions
registerPublicKey(peerId, publicKey) ==
    /\ publicKeyMap' = MapSet(publicKeyMap, peerId, publicKey)
    /\ last' = Call("registerPublicKey", peerId, Unknown, Unknown, Unknown, "none")
    /\ UNCHANGED <<verificationMap, timers, pendingEncrypt, nextId,
                   sentEncryptedToken, sentRawToken, expired, superseded>>

\* Faulty variant: the request is sent before the await, ahead of the session.
initiateVerificationSendsFirst(peerId, publicKey) ==
    /\ nextId < MaxInit
    /\ nextId' = nextId + 1
    /\ pendingEncrypt' = pendingEncrypt \cup
          {[peerId |-> peerId, publicKey |-> publicKey,
            localToken |-> generateToken(nextId + 1),
            requestId |-> generateRequestId(nextId + 1)]}
    /\ sentEncryptedToken' = sentEncryptedToken \cup
          {[to |-> peerId, requestId |-> generateRequestId(nextId + 1),
            encryptedToken |->
                arrayBufferToBase64(encryptString(publicKey, generateToken(nextId + 1)))]}
    /\ last' = Call("initiateVerification", peerId, generateRequestId(nextId + 1),
                    Unknown, Unknown, "none")
    /\ UNCHANGED <<verificationMap, publicKeyMap, timers,
                   sentRawToken, expired, superseded>>

\* initiateVerification up to its await: token and request id are generated,
\* encryptString is called and the call suspends.
initiateVerification(peerId, publicKey) ==
    /\ nextId < MaxInit
    /\ nextId' = nextId + 1
    /\ pendingEncrypt' = pendingEncrypt \cup
          {[peerId |-> peerId, publicKey |-> publicKey,
            localToken |-> generateToken(nextId + 1),
            requestId |-> generateRequestId(nextId + 1)]}
    /\ last' = Call("initiateVerification", peerId, generateRequestId(nextId + 1),
                    Unknown, Unknown, "none")
    /\ UNCHANGED <<verificationMap, publicKeyMap, timers,
                   sentEncryptedToken, sentRawToken, expired, superseded>>

\* Faulty variant: a session that is already stored for the peer is kept.
initiateVerificationResumeKeepsSession(call) ==
    LET encryptedToken == encryptString(call.publicKey, call.localToken)
        encryptedTokenBase64 == arrayBufferToBase64(encryptedToken)
        handle == call.requestId
        metadata == [peerId |-> call.peerId,
                     state |-> VERIFYING,
                     localToken |-> call.localToken,
                     encryptedLocalToken |-> encryptedTokenBase64,
                     requestId |-> call.requestId,
                     remoteToken |-> Unknown,
                     timeoutTimer |-> handle]
    IN  /\ call \in pendingEncrypt
        /\ pendingEncrypt' = pendingEncrypt \ {call}
        /\ timers' = setTimeout(timers, handle, call.peerId)
        /\ verificationMap' = IF call.peerId \in DOMAIN verificationMap
                              THEN verificationMap
                              ELSE MapSet(verificationMap, call.peerId, metadata)
        /\ publicKeyMap' = MapSet(publicKeyMap, call.peerId, call.publicKey)
        /\ sentEncryptedToken' = sentEncryptedToken \cup
              {[to |-> call.peerId, requestId |-> call.requestId,
                encryptedToken |-> encryptedTokenBase64]}
        /\ last' = Call("initiateVerificationResume", call.peerId, call.requestId,
                        Unknown, handle, "none")
        /\ expired' = expired \ {call.peerId}
        /\ superseded' =
              IF /\ call.peerId \in DOMAIN verificationMap
                 /\ verificationMap[call.peerId].state = VERIFYING
                 /\ verificationMap[call.peerId].timeoutTimer \in DOMAIN timers
              THEN superseded \cup {verificationMap[call.peerId].timeoutTimer}
              ELSE superseded
        /\ UNCHANGED <<nextId, sentRawToken>>

\* Faulty variant: the request is sent without a target, to every peer of the room.
initiateVerificationResumeBroadcast(call) ==
    LET encryptedToken == encryptString(call.publicKey, call.localToken)
        encryptedTokenBase64 == arrayBufferToBase64(encryptedToken)
        handle == call.requestId
        metadata == [peerId |-> call.peerId,
                     state |-> VERIFYING,
                     localToken |-> call.localToken,
                     encryptedLocalToken |-> encryptedTokenBase64,
                     requestId |-> call.requestId,
                     remoteToken |-> Unknown,
                     timeoutTimer |-> handle]
    IN  /\ call \in pendingEncrypt
        /\ pendingEncrypt' = pendingEncrypt \ {call}
        /\ timers' = setTimeout(timers, handle, call.peerId)
        /\ verificationMap' = MapSet(verificationMap, call.peerId, metadata)
        /\ publicKeyMap' = MapSet(publicKeyMap, call.peerId, call.publicKey)
        /\ sentEncryptedToken' = sentEncryptedToken \cup
              {[to |-> p, requestId |-> call.requestId,
                encryptedToken |-> encryptedTokenBase64] : p \in Peers}
        /\ last' = Call("initiateVerificationResume", call.peerId, call.requestId,
                        Unknown, handle, "none")
        /\ expired' = expired \ {call.peerId}
        /\ superseded' =
              IF /\ call.peerId \in DOMAIN verificationMap
                 /\ verificationMap[call.peerId].state = VERIFYING
                 /\ verificationMap[call.peerId].timeoutTimer \in DOMAIN timers
              THEN superseded \cup {verificationMap[call.peerId].timeoutTimer}
              ELSE superseded
        /\ UNCHANGED <<nextId, sentRawToken>>

\* initiateVerification after its await: the session is built, its timer is
\* armed, the session and the key are stored and the request is sent.
initiateVerificationResume(call) ==
    LET encryptedToken == encryptString(call.publicKey, call.localToken)
        encryptedTokenBase64 == arrayBufferToBase64(encryptedToken)
        handle == call.requestId
        metadata == [peerId |-> call.peerId,
                     state |-> VERIFYING,
                     localToken |-> call.localToken,
                     encryptedLocalToken |-> encryptedTokenBase64,
                     requestId |-> call.requestId,
                     remoteToken |-> Unknown,
                     timeoutTimer |-> handle]
    IN  /\ call \in pendingEncrypt
        /\ pendingEncrypt' = pendingEncrypt \ {call}
        /\ timers' = setTimeout(timers, handle, call.peerId)
        /\ verificationMap' = MapSet(verificationMap, call.peerId, metadata)
        /\ publicKeyMap' = MapSet(publicKeyMap, call.peerId, call.publicKey)
        /\ sentEncryptedToken' = sentEncryptedToken \cup
              {[to |-> call.peerId, requestId |-> call.requestId,
                encryptedToken |-> encryptedTokenBase64]}
        /\ last' = Call("initiateVerificationResume", call.peerId, call.requestId,
                        Unknown, handle, "none")
        /\ expired' = expired \ {call.peerId}
        /\ superseded' =
              IF /\ call.peerId \in DOMAIN verificationMap
                 /\ verificationMap[call.peerId].state = VERIFYING
                 /\ verificationMap[call.peerId].timeoutTimer \in DOMAIN timers
              THEN superseded \cup {verificationMap[call.peerId].timeoutTimer}
              ELSE superseded
        /\ UNCHANGED <<nextId, sentRawToken>>

\* ------------------------------------------------- inbound request (challenge)
\* What a remote peer can put on the request channel.
InboundRequests ==
    {[requestId |-> Unknown,
      encryptedToken |-> arrayBufferToBase64(encryptString(k, generateToken(1)))] :
        k \in {LocalKey}}

\* try { key; decrypt; sendRawToken } catch { setVerificationState(UNVERIFIED) }
\* The handler awaits getPrivateKey before it touches any state, so all its
\* effects happen in one run-to-completion step.
handleEncryptedTokenReceived(data, peerId) ==
    LET privateKey == getPrivateKey
        encryptedBuffer == base64ToArrayBuffer(data.encryptedToken)
        thrown == privateKey = Null \/ ~CanDecrypt(privateKey, encryptedBuffer)
    IN  /\ IF thrown
           THEN /\ verificationMap' = setVerificationState(verificationMap, peerId, UNVERIFIED)
                /\ UNCHANGED sentRawToken
           ELSE /\ sentRawToken' = sentRawToken \cup
                      {[to |-> peerId, requestId |-> data.requestId,
                        decryptedToken |-> decryptString(privateKey, encryptedBuffer)]}
                /\ UNCHANGED verificationMap
        /\ last' = Call("handleEncryptedTokenReceived", peerId, data.requestId,
                        IF thrown THEN Unknown ELSE decryptString(privateKey, encryptedBuffer),
                        Unknown, "none")
        /\ UNCHANGED <<publicKeyMap, timers, pendingEncrypt, nextId,
                       sentEncryptedToken, expired, superseded>>

\* ------------------------------------------------- inbound response
\* The tokens a remote peer has learnt: those of the requests that were sent to
\* it under a public key whose private key it holds.
KnownTokens(peerId) ==
    {base64ToArrayBuffer(m.encryptedToken).plain :
        m \in {x \in sentEncryptedToken :
                 /\ x.to = peerId
                 /\ CanDecrypt(PrivateKeyOf(peerId), base64ToArrayBuffer(x.encryptedToken))}}

\* What a remote peer can put on the response channel.
SeenRequestIds(peerId) == {m.requestId : m \in {x \in sentEncryptedToken : x.to = peerId}}

StoredRequestIds == {verificationMap[p].requestId : p \in DOMAIN verificationMap}

InboundResponses(peerId) ==
    [requestId : SeenRequestIds(peerId) \cup StoredRequestIds \cup {Unknown},
     decryptedToken : KnownTokens(peerId) \cup {Unknown}]

\* Faulty variant: the request id check is dropped.
requestIdMatchesAlways(metadata, data) == TRUE

requestIdMatches(metadata, data) == metadata.requestId = data.requestId

\* Faulty variant: the comparison is inverted.
tokenMatchesInverted(metadata, data) == data.decryptedToken # metadata.localToken

\* Faulty variant: the comparison is dropped.
tokenMatchesAlways(metadata, data) == TRUE

\* Faulty variant: the timer is left running.
clearSessionTimerForgotten(t, metadata) == t

tokenMatches(metadata, data) == data.decryptedToken = metadata.localToken

\* The timer table after a response with the session's request id.
clearSessionTimer(t, metadata) == clearTimeout(t, metadata.timeoutTimer)

\* Faulty variant: without a session for the sender, the session that carries the
\* response's request id is taken instead.
handleRawTokenReceivedByRequestId(data, peerId) ==
    /\ IF peerId \notin DOMAIN verificationMap
       THEN /\ verificationMap' =
                   [p \in DOMAIN verificationMap |->
                       IF verificationMap[p].requestId = data.requestId
                       THEN [verificationMap[p] EXCEPT !.state = UNVERIFIED]
                       ELSE verificationMap[p]]
            /\ UNCHANGED timers
       ELSE LET metadata == verificationMap[peerId]
            IN  IF ~requestIdMatches(metadata, data)
                THEN /\ verificationMap' =
                            setVerificationState(verificationMap, peerId, UNVERIFIED)
                     /\ UNCHANGED timers
                ELSE /\ timers' = clearSessionTimer(timers, metadata)
                     /\ verificationMap' =
                            IF tokenMatches(metadata, data)
                            THEN setVerificationState(
                                     [verificationMap EXCEPT
                                         ![peerId].remoteToken = data.decryptedToken],
                                     peerId, VERIFIED)
                            ELSE setVerificationState(verificationMap, peerId, UNVERIFIED)
    /\ superseded' = superseded \cap DOMAIN timers'
    /\ last' = Call("handleRawTokenReceived", peerId, data.requestId, data.decryptedToken,
                    Unknown, "none")
    /\ UNCHANGED <<publicKeyMap, pendingEncrypt, nextId,
                   sentEncryptedToken, sentRawToken, expired>>

handleRawTokenReceived(data, peerId) ==
    /\ IF peerId \notin DOMAIN verificationMap
       THEN UNCHANGED <<verificationMap, timers>>
       ELSE LET metadata == verificationMap[peerId]
            IN  IF ~requestIdMatches(metadata, data)
                THEN /\ verificationMap' =
                            setVerificationState(verificationMap, peerId, UNVERIFIED)
                     /\ UNCHANGED timers
                ELSE /\ timers' = clearSessionTimer(timers, metadata)
                     /\ verificationMap' =
                            IF tokenMatches(metadata, data)
                            THEN setVerificationState(
                                     [verificationMap EXCEPT
                                         ![peerId].remoteToken = data.decryptedToken],
                                     peerId, VERIFIED)
                            ELSE setVerificationState(verificationMap, peerId, UNVERIFIED)
    /\ superseded' = superseded \cap DOMAIN timers'
    /\ last' = Call("handleRawTokenReceived", peerId, data.requestId, data.decryptedToken,
                    Unknown, "none")
    /\ UNCHANGED <<publicKeyMap, pendingEncrypt, nextId,
                   sentEncryptedToken, sentRawToken, expired>>

\* ------------------------------------------------- timer callback
\* The callback armed by initiateVerification captured only the peerId.
handleVerificationTimeout(handle) ==
    LET peerId == timers[handle]
        own == /\ peerId \in DOMAIN verificationMap
               /\ verificationMap[peerId].timeoutTimer = handle
               /\ verificationMap[peerId].state = VERIFYING
    IN  /\ handle \in DOMAIN timers
        /\ timers' = MapDelete(timers, handle)
        /\ verificationMap' = setVerificationState(verificationMap, peerId, UNVERIFIED)
        /\ expired' = IF own THEN expired \cup {peerId} ELSE expired
        /\ superseded' = superseded \ {handle}
        /\ last' = Call("handleVerificationTimeout", peerId, Unknown, Unknown, handle, "none")
        /\ UNCHANGED <<publicKeyMap, pendingEncrypt, nextId,
                       sentEncryptedToken, sentRawToken>>

\* ------------------------------------------------- removal
\* Faulty variant: the timer of the removed session is left running.
removePeerKeepsTimer(peerId) ==
    /\ timers' = timers
    /\ verificationMap' = MapDelete(verificationMap, peerId)
    /\ publicKeyMap' = MapDelete(publicKeyMap, peerId)
    /\ expired' = expired \ {peerId}
    /\ superseded' = superseded \cap DOMAIN timers'
    /\ last' = Call("removePeer", peerId, Unknown, Unknown, Unknown, "none")
    /\ UNCHANGED <<pendingEncrypt, nextId, sentEncryptedToken, sentRawToken>>

removePeer(peerId) ==
    /\ timers' = IF peerId \in DOMAIN verificationMap
                 THEN clearTimeout(timers, verificationMap[peerId].timeoutTimer)
                 ELSE timers
    /\ verificationMap' = MapDelete(verificationMap, peerId)
    /\ publicKeyMap' = MapDelete(publicKeyMap, peerId)
    /\ expired' = expired \ {peerId}
    /\ superseded' = superseded \cap DOMAIN timers'
    /\ last' = Call("removePeer", peerId, Unknown, Unknown, Unknown, "none")
    /\ UNCHANGED <<pendingEncrypt, nextId, sentEncryptedToken, sentRawToken>>

RECURSIVE clearAll(_, _)
clearAll(t, handles) ==
    IF handles = {} THEN t
    ELSE LET h == CHOOSE x \in handles : TRUE
         IN  clearAll(clearTimeout(t, h), handles \ {h})

cleanup ==
    /\ timers' = clearAll(timers, {verificationMap[p].timeoutTimer : p \in DOMAIN verificationMap})
    /\ verificationMap' = EmptyMap
    /\ publicKeyMap' = EmptyMap
    /\ expired' = {}
    /\ superseded' = superseded \cap DOMAIN timers'
    /\ last' = Call("cleanup", Null, Unknown, Unknown, Unknown, "none")
    /\ UNCHANGED <<pendingEncrypt, nextId, sentEncryptedToken, sentRawToken>>

\* The registry is only written by the engine, never read: the key that is
\* registered for a peer is the one its metadata carried.
Next ==
    \/ /\ \E p \in Peers : registerPublicKey(p, PrivateKeyOf(p))
       /\ UNCHANGED exceptVerification
    \/ /\ \E p \in Peers, k \in PublicKeys : initiateVerification(p, k)
       /\ UNCHANGED exceptVerification
    \/ /\ \E c \in pendingEncrypt : initiateVerificationResume(c)
       /\ UNCHANGED exceptVerification
    \/ /\ \E p \in Peers, d \in InboundRequests : handleEncryptedTokenReceived(d, p)
       /\ UNCHANGED exceptVerification
    \/ /\ \E p \in Peers : \E d \in InboundResponses(p) : handleRawTokenReceived(d, p)
       /\ UNCHANGED exceptVerification
    \/ /\ \E h \in DOMAIN timers : handleVerificationTimeout(h)
       /\ UNCHANGED exceptVerification
    \/ /\ \E p \in Peers : removePeer(p)
       /\ UNCHANGED exceptVerification
    \/ /\ cleanup
       /\ UNCHANGED exceptVerification

Spec == Init /\ [][Next]_vars

\* The handles setTimeout can return.
TimerHandles == 1..MaxInit

\* The event loop runs the callback of a pending timer once its delay has
\* passed, unless the timer is cleared first.
TimersFire ==
    \A h \in TimerHandles :
        WF_vars(handleVerificationTimeout(h) /\ UNCHANGED exceptVerification)

FairSpec == Init /\ [][Next]_vars /\ TimersFire

TypeOK ==
    /\ DOMAIN verificationMap \subseteq Peers
    /\ DOMAIN publicKeyMap \subseteq Peers
    /\ DOMAIN timers \subseteq 1..MaxInit
    /\ superseded \subseteq DOMAIN timers
    /\ expired \subseteq DOMAIN verificationMap
    /\ nextId \in 0..MaxInit
    /\ sentRawToken = {}

\* ================================================================ StreamManager
\* A queued task: the attach of one addStream call, or the sleep that follows it.
Task(kind, call, stream) == [kind |-> kind, call |-> call, stream |-> stream]

Running(status) == {t \in DOMAIN status : status[t] = "running"}

\* Faulty variant: the head of the queue is called but not removed.
drainLoopWithoutShift(queue, flag, status) ==
    IF Len(queue) > 0
    THEN [queue |-> queue, flag |-> flag,
          status |-> [status EXCEPT ![Head(queue)] = "running"]]
    ELSE [queue |-> queue, flag |-> FALSE, status |-> status]

\* The while loop of processPendingStreams from its condition to its next await
\* (the head of the queue is shifted and called) or to its end (the flag is reset).
drainLoop(queue, flag, status) ==
    IF Len(queue) > 0
    THEN [queue |-> Tail(queue), flag |-> flag,
          status |-> [status EXCEPT ![Head(queue)] = "running"]]
    ELSE [queue |-> queue, flag |-> FALSE, status |-> status]

\* A call of processPendingStreams, up to its first await or its return.
processPendingStreams(queue, flag, status) ==
    IF flag
    THEN [queue |-> queue, flag |-> flag, status |-> status]
    ELSE drainLoop(queue, TRUE, status)

\* A StreamManager call: the tasks it started (an attach that starts is a call of
\* room.addStream) and the streams it handed to room.removeStream.
StreamCall(op, stream, task, before, after, detached) ==
    [op |-> op, stream |-> stream, task |-> task,
     started |-> Running(after) \ Running(before), detached |-> detached]

addStream(stream) ==
    /\ addCalls < MaxAdd
    /\ LET call == addCalls + 1
           attach == Task("attach", call, stream)
           delay == Task("sleep", call, stream)
           pushed == streamQueue \o <<attach, delay>>
           status == [t \in DOMAIN taskStatus \cup {attach, delay} |->
                         IF t \in DOMAIN taskStatus THEN taskStatus[t] ELSE "queued"]
           r == processPendingStreams(pushed, isProcessingPendingStreams, status)
       IN  /\ streamQueue' = r.queue
           /\ isProcessingPendingStreams' = r.flag
           /\ taskStatus' = r.status
           /\ addCalls' = call
           /\ streamLast' = StreamCall("addStream", stream, {}, taskStatus, r.status, {})

\* The promise a draining loop awaits is fulfilled (the transport attached the
\* stream, or the sleep timer fired) and the loop goes on.
taskResolved(task) ==
    /\ task \in Running(taskStatus)
    /\ LET status == [taskStatus EXCEPT ![task] = "done"]
           r == drainLoop(streamQueue, isProcessingPendingStreams, status)
       IN  /\ streamQueue' = r.queue
           /\ isProcessingPendingStreams' = r.flag
           /\ taskStatus' = r.status
           /\ streamLast' = StreamCall("taskResolved", task.stream, {task}, status, r.status, {})
    /\ UNCHANGED addCalls

\* The transport's attach rejects: await task() throws and the loop ends there.
taskRejected(task) ==
    /\ task \in Running(taskStatus)
    /\ task.kind = "attach"
    /\ taskStatus' = [taskStatus EXCEPT ![task] = "failed"]
    /\ streamLast' = StreamCall("taskRejected", task.stream, {task}, taskStatus, taskStatus, {})
    /\ UNCHANGED <<streamQueue, isProcessingPendingStreams, addCalls>>

\* Faulty variant: the detach waits in the queue like an attach.
removeStreamQueued(stream) ==
    /\ LET detach == Task("detach", addCalls, stream)
           pushed == streamQueue \o <<detach>>
           status == [t \in DOMAIN taskStatus \cup {detach} |->
                         IF t \in DOMAIN taskStatus THEN taskStatus[t] ELSE "queued"]
           r == processPendingStreams(pushed, isProcessingPendingStreams, status)
       IN  /\ streamQueue' = r.queue
           /\ isProcessingPendingStreams' = r.flag
           /\ taskStatus' = r.status
           /\ streamLast' = StreamCall("removeStream", stream, {}, taskStatus, r.status, {})
    /\ UNCHANGED addCalls

removeStream(stream) ==
    /\ streamLast' = StreamCall("removeStream", stream, {}, taskStatus, taskStatus, {stream})
    /\ UNCHANGED <<streamQueue, isProcessingPendingStreams, taskStatus, addCalls>>

\* Faulty variant: only the flag is reset, the queue is kept.
StreamManager_cleanupKeepsQueue ==
    /\ isProcessingPendingStreams' = FALSE
    /\ streamLast' = StreamCall("cleanup", Null, {}, taskStatus, taskStatus, {})
    /\ UNCHANGED <<streamQueue, taskStatus, addCalls>>

StreamManager_cleanup ==
    /\ streamQueue' = <<>>
    /\ isProcessingPendingStreams' = FALSE
    /\ taskStatus' = [t \in DOMAIN taskStatus |->
                         IF taskStatus[t] = "queued" THEN "dropped" ELSE taskStatus[t]]
    /\ streamLast' = StreamCall("cleanup", Null, {}, taskStatus, taskStatus, {})
    /\ UNCHANGED addCalls

StreamNext ==
    \/ /\ \E s \in Streams : addStream(s)
       /\ UNCHANGED exceptStreams
    \/ /\ \E t \in DOMAIN taskStatus : taskResolved(t)
       /\ UNCHANGED exceptStreams
    \/ /\ \E t \in DOMAIN taskStatus : taskRejected(t)
       /\ UNCHANGED exceptStreams
    \/ /\ \E s \in Streams : removeStream(s)
       /\ UNCHANGED exceptStreams
    \/ /\ StreamManager_cleanup
       /\ UNCHANGED exceptStreams

StreamSpec == Init /\ [][StreamNext]_streamVars

\* Every task an addStream call can enqueue.
Tasks == {Task(kind, call, stream) :
             kind \in {"attach", "sleep"}, call \in 1..MaxAdd, stream \in Streams}

\* The promise of a task that was started settles: the sleep timer fires, and
\* the transport fulfils or rejects the attach.
TasksSettle ==
    \A t \in Tasks :
        WF_streamVars((taskResolved(t) \/ taskRejected(t)) /\ UNCHANGED exceptStreams)

FairStreamSpec == Init /\ [][StreamNext]_streamVars /\ TasksSettle

\* A StreamManager on which cleanup is never called and whose transport
\* fulfils every attach.
DrainNext ==
    \/ /\ \E s \in Streams : addStream(s)
       /\ UNCHANGED exceptStreams
    \/ /\ \E t \in DOMAIN taskStatus : taskResolved(t)
       /\ UNCHANGED exceptStreams
    \/ /\ \E s \in Streams : removeStream(s)
       /\ UNCHANGED exceptStreams

TasksResolve ==
    \A t \in Tasks : WF_streamVars(taskResolved(t) /\ UNCHANGED exceptStreams)

DrainSpec == Init /\ [][DrainNext]_streamVars /\ TasksResolve

StreamTypeOK ==
    /\ addCalls \in 0..MaxAdd
    /\ isProcessingPendingStreams \in BOOLEAN
    /\ \A i \in 1..Len(streamQueue) : taskStatus[streamQueue[i]] = "queued"
    /\ \A t \in DOMAIN taskStatus :
          taskStatus[t] = "queued" => \E i \in 1..Len(streamQueue) : streamQueue[i] = t

\* ================================================================ ActionManager
\* Faulty variant: the memo table is never consulted.
cachedNever(table, name) == FALSE

\* this.actions.has(actionName)
cached(table, name) == name \in DOMAIN table

makeAction(action, namespace) ==
    LET name == actionName(namespace, action)
        args == <<action, namespace>>
    IN  IF cached(actions, name)
        THEN /\ actionLast' = ActionCall("makeAction", name, args, actions[name], FALSE)
             /\ undisposed' = MapSet(undisposed, args, actions[name])
             /\ UNCHANGED <<actions, tuples, roomActions>>
        ELSE /\ Cardinality(DOMAIN tuples) < MaxHandles
             /\ LET peerActionTuple == Cardinality(DOMAIN tuples) + 1
                IN  /\ roomActions' = [roomActions EXCEPT ![name] = @ + 1]
                    /\ tuples' = MapSet(tuples, peerActionTuple,
                                         [name |-> name, args |-> args])
                    /\ actions' = MapSet(actions, name, peerActionTuple)
                    /\ undisposed' = MapSet(undisposed, args, peerActionTuple)
                    /\ actionLast' = ActionCall("makeAction", name, args,
                                                peerActionTuple, TRUE)

\* The fourth member of a handle tuple: this.actions.delete(actionName).
dispose(handle) ==
    /\ handle \in DOMAIN tuples
    /\ actions' = MapDelete(actions, tuples[handle].name)
    /\ undisposed' = MapDelete(undisposed, tuples[handle].args)
    /\ actionLast' = ActionCall("dispose", tuples[handle].name, tuples[handle].args,
                                handle, FALSE)
    /\ UNCHANGED <<tuples, roomActions>>

\* Faulty variant: the table is not cleared.
ActionManager_cleanupKeepsTable ==
    /\ actions' = actions
    /\ undisposed' = EmptyMap
    /\ actionLast' = ActionCall("cleanup", Null, <<>>, 0, FALSE)
    /\ UNCHANGED <<tuples, roomActions>>

ActionManager_cleanup ==
    /\ actions' = EmptyMap
    /\ undisposed' = EmptyMap
    /\ actionLast' = ActionCall("cleanup", Null, <<>>, 0, FALSE)
    /\ UNCHANGED <<tuples, roomActions>>

ActionNext ==
    \/ /\ \E a \in PeerActions, n \in Namespaces : makeAction(a, n)
       /\ UNCHANGED exceptActions
    \/ /\ \E h \in DOMAIN tuples : dispose(h)
       /\ UNCHANGED exceptActions
    \/ /\ ActionManager_cleanup
       /\ UNCHANGED exceptActions

ActionSpec == Init /\ [][ActionNext]_actionVars

\* ------------------------------------------------ the transport's channels
\* Faulty variant: the handler is added to those registered before.
receiveAlso(handle, handler) ==
    /\ handle \in DOMAIN tuples
    /\ receivers' = MapSet(receivers, tuples[handle].name,
                           (IF tuples[handle].name \in DOMAIN receivers
                            THEN receivers[tuples[handle].name] ELSE {}) \cup {handler})
    /\ channelLast' = ChannelCall("receive", tuples[handle].name, handler, {})

\* The second member of a handle tuple, called with a handler: the transport
\* keeps one receive handler per action name, the one registered last.
receive(handle, handler) ==
    /\ handle \in DOMAIN tuples
    /\ receivers' = MapSet(receivers, tuples[handle].name, {handler})
    /\ channelLast' = ChannelCall("receive", tuples[handle].name, handler, {})

\* A payload sent under an action name arrives: the transport calls the
\* handler registered for that name, if there is one.
inboundPayload(name) ==
    /\ channelLast' = ChannelCall("inboundPayload", name, Null,
                                  IF name \in DOMAIN receivers THEN receivers[name] ELSE {})
    /\ UNCHANGED receivers

\* The action whose group and direct channels are followed on the transport.
ChannelActions == {"MESSAGE"}

ChannelNames == {actionName(n, a) : n \in Namespaces, a \in ChannelActions}

ChannelNext ==
    \/ /\ \E a \in ChannelActions, n \in Namespaces : makeAction(a, n)
       /\ UNCHANGED exceptActions
    \/ /\ \E h \in DOMAIN tuples : dispose(h)
       /\ UNCHANGED exceptActions
    \/ /\ ActionManager_cleanup
       /\ UNCHANGED exceptActions
    \/ /\ \E h \in DOMAIN tuples, f \in ReceiveHandlers : receive(h, f)
       /\ UNCHANGED exceptChannels
    \/ /\ \E n \in ChannelNames : inboundPayload(n)
       /\ UNCHANGED exceptChannels

ChannelSpec == Init /\ [][ChannelNext]_<<actionVars, channelVars>>

ActionTypeOK ==
    /\ DOMAIN actions \subseteq ActionNames
    /\ DOMAIN tuples = 1..Cardinality(DOMAIN tuples)
    /\ Cardinality(DOMAIN tuples) <= MaxHandles
    /\ \A n \in DOMAIN actions : actions[n] \in DOMAIN tuples

\* ================================================================= EventManager
\* if (!map.has(hookType)) map.set(hookType, new Set()); map.get(hookType).add(handler)
addHandler(map, hookType, handler) ==
    MapSet(map, hookType,
           (IF hookType \in DOMAIN map THEN map[hookType] ELSE {}) \cup {handler})

Registrations(map) == {<<c, h>> \in HookTypes \X Handlers : c \in DOMAIN map /\ h \in map[c]}

RegistrationCount ==
    Cardinality(Registrations(peerJoinHandlers)) + Cardinality(Registrations(peerLeaveHandlers))
        + Cardinality(Registrations(peerStreamHandlers))

\* handlers.forEach(handler => handler(...args)): the calls made, in order.
RECURSIVE forEachHandler(_, _)
forEachHandler(handlerSet, args) ==
    IF handlerSet = {} THEN <<>>
    ELSE LET handler == CHOOSE h \in handlerSet : TRUE
         IN  <<[handler |-> handler, args |-> args]>>
                 \o forEachHandler(handlerSet \ {handler}, args)

\* map.forEach((handlers) => ...) over the hook types still to visit.
RECURSIVE forEachHookType(_, _, _)
forEachHookType(map, hookTypes, args) ==
    IF hookTypes = {} THEN <<>>
    ELSE LET hookType == CHOOSE c \in hookTypes : TRUE
         IN  forEachHandler(map[hookType], args)
                 \o forEachHookType(map, hookTypes \ {hookType}, args)

\* Faulty variant: only the handlers of one hook type are called.
triggerOneHookType(map, args) ==
    IF DOMAIN map = {} THEN <<>>
    ELSE forEachHandler(map[CHOOSE c \in DOMAIN map : TRUE], args)

\* The body shared by triggerPeerJoin, triggerPeerLeave and triggerPeerStream.
trigger(map, args) == forEachHookType(map, DOMAIN map, args)

onPeerJoin(hookType, handler) ==
    /\ RegistrationCount < MaxRegistrations
    /\ peerJoinHandlers' = addHandler(peerJoinHandlers, hookType, handler)
    /\ eventLast' = EventCall("onPeerJoin", hookType, handler, <<>>, <<>>)
    /\ UNCHANGED <<peerLeaveHandlers, peerStreamHandlers>>

onPeerLeave(hookType, handler) ==
    /\ RegistrationCount < MaxRegistrations
    /\ peerLeaveHandlers' = addHandler(peerLeaveHandlers, hookType, handler)
    /\ eventLast' = EventCall("onPeerLeave", hookType, handler, <<>>, <<>>)
    /\ UNCHANGED <<peerJoinHandlers, peerStreamHandlers>>

onPeerStream(hookType, handler) ==
    /\ RegistrationCount < MaxRegistrations
    /\ peerStreamHandlers' = addHandler(peerStreamHandlers, hookType, handler)
    /\ eventLast' = EventCall("onPeerStream", hookType, handler, <<>>, <<>>)
    /\ UNCHANGED <<peerJoinHandlers, peerLeaveHandlers>>

offPeerJoin(hookType) ==
    /\ peerJoinHandlers' = MapDelete(peerJoinHandlers, hookType)
    /\ eventLast' = EventCall("offPeerJoin", hookType, Null, <<>>, <<>>)
    /\ UNCHANGED <<peerLeaveHandlers, peerStreamHandlers>>

offPeerLeave(hookType) ==
    /\ peerLeaveHandlers' = MapDelete(peerLeaveHandlers, hookType)
    /\ eventLast' = EventCall("offPeerLeave", hookType, Null, <<>>, <<>>)
    /\ UNCHANGED <<peerJoinHandlers, peerStreamHandlers>>

offPeerStream(hookType) ==
    /\ peerStreamHandlers' = MapDelete(peerStreamHandlers, hookType)
    /\ eventLast' = EventCall("offPeerStream", hookType, Null, <<>>, <<>>)
    /\ UNCHANGED <<peerJoinHandlers, peerLeaveHandlers>>

triggerPeerJoin(peerId) ==
    /\ eventLast' = EventCall("triggerPeerJoin", Null, Null, <<peerId>>,
                              trigger(peerJoinHandlers, <<peerId>>))
    /\ UNCHANGED <<peerJoinHandlers, peerLeaveHandlers, peerStreamHandlers>>

triggerPeerLeave(peerId) ==
    /\ eventLast' = EventCall("triggerPeerLeave", Null, Null, <<peerId>>,
                              trigger(peerLeaveHandlers, <<peerId>>))
    /\ UNCHANGED <<peerJoinHandlers, peerLeaveHandlers, peerStreamHandlers>>

triggerPeerStream(stream, peerId, metadata) ==
    /\ eventLast' = EventCall("triggerPeerStream", Null, Null, <<stream, peerId, metadata>>,
                              trigger(peerStreamHandlers, <<stream, peerId, metadata>>))
    /\ UNCHANGED <<peerJoinHandlers, peerLeaveHandlers, peerStreamHandlers>>

flush ==
    /\ peerJoinHandlers' = EmptyMap
    /\ peerLeaveHandlers' = EmptyMap
    /\ peerStreamHandlers' = EmptyMap
    /\ eventLast' = EventCall("flush", Null, Null, <<>>, <<>>)

\* Faulty variant: only the join handlers of the hook type are removed.
flushHookTypeJoinOnly(hookType) ==
    /\ peerJoinHandlers' = MapDelete(peerJoinHandlers, hookType)
    /\ eventLast' = EventCall("flushHookType", hookType, Null, <<>>, <<>>)
    /\ UNCHANGED <<peerLeaveHandlers, peerStreamHandlers>>

flushHookType(hookType) ==
    /\ peerJoinHandlers' = MapDelete(peerJoinHandlers, hookType)
    /\ peerLeaveHandlers' = MapDelete(peerLeaveHandlers, hookType)
    /\ peerStreamHandlers' = MapDelete(peerStreamHandlers, hookType)
    /\ eventLast' = EventCall("flushHookType", hookType, Null, <<>>, <<>>)

EventNext ==
    \/ /\ \E c \in HookTypes, h \in Handlers : onPeerJoin(c, h)
       /\ UNCHANGED exceptEvents
    \/ /\ \E c \in HookTypes, h \in Handlers : onPeerLeave(c, h)
       /\ UNCHANGED exceptEvents
    \/ /\ \E c \in HookTypes, h \in Handlers : onPeerStream(c, h)
       /\ UNCHANGED exceptEvents
    \/ /\ \E c \in HookTypes : offPeerJoin(c)
       /\ UNCHANGED exceptEvents
    \/ /\ \E c \in HookTypes : offPeerLeave(c)
       /\ UNCHANGED exceptEvents
    \/ /\ \E c \in HookTypes : offPeerStream(c)
       /\ UNCHANGED exceptEvents
    \/ /\ \E p \in Peers : triggerPeerJoin(p)
       /\ UNCHANGED exceptEvents
    \/ /\ \E p \in Peers : triggerPeerLeave(p)
       /\ UNCHANGED exceptEvents
    \/ /\ \E s \in Streams, p \in Peers, m \in PeerStreamTypes : triggerPeerStream(s, p, m)
       /\ UNCHANGED exceptEvents
    \/ /\ flush
       /\ UNCHANGED exceptEvents
    \/ /\ \E c \in HookTypes : flushHookType(c)
       /\ UNCHANGED exceptEvents

EventSpec == Init /\ [][EventNext]_eventVars

EventTypeOK ==
    /\ RegistrationCount <= MaxRegistrations
    /\ \A map \in {peerJoinHandlers, peerLeaveHandlers, peerStreamHandlers} :
          /\ DOMAIN map \subseteq HookTypes
          /\ \A c \in DOMAIN map : map[c] # {} /\ map[c] \subseteq Handlers

\* ============================================================ ConnectionManager
\* An RTCStatsReport, as far as the classification reads it: its candidate-pair
\* entries in the order of stats.values(), each with its state and its
\* localCandidateId (Null: none), and its local-candidate entries by id.
CandidatePairs == [state : PairStates, localCandidateId : CandidateIds \cup {Null}]

RECURSIVE SeqsUpTo(_, _)
SeqsUpTo(set, n) ==
    IF n = 0 THEN {<<>>}
    ELSE LET shorter == SeqsUpTo(set, n - 1)
         IN  shorter \cup {Append(q, x) : q \in shorter, x \in set}

CandidateMaps ==
    UNION {[ids -> CandidateTypes] : ids \in SUBSET CandidateIds}

StatsReports == [pairs : SeqsUpTo(CandidatePairs, MaxPairs), candidates : CandidateMaps]

\* The for loop over stats.values(): the localCandidateId of the first
\* candidate pair that succeeded and has one, from position i on.
RECURSIVE selectedLocalCandidate(_, _)
selectedLocalCandidate(stats, i) ==
    IF i > Len(stats.pairs) THEN Null
    ELSE IF /\ stats.pairs[i].state = "succeeded"
            /\ stats.pairs[i].localCandidateId # Null
         THEN stats.pairs[i].localCandidateId
         ELSE selectedLocalCandidate(stats, i + 1)

\* !!selectedLocalCandidate && stats.get(selectedLocalCandidate)?.candidateType === 'relay'
isRelay(stats) ==
    LET selected == selectedLocalCandidate(stats, 1)
    IN  /\ selected # Null
        /\ selected \in DOMAIN stats.candidates
        /\ stats.candidates[selected] = "relay"

connectionType(stats) == IF isRelay(stats) THEN RELAY ELSE DIRECT

\* The transport reports a peer as connected, or as gone.
roomPeerJoin(peerId) ==
    /\ peerId \notin roomPeers
    /\ roomPeers' = roomPeers \cup {peerId}
    /\ connectionLast' = ConnectionCall("roomPeerJoin", peerId)
    /\ UNCHANGED <<callState, callPeers, statsPending, peerConnections>>

roomPeerLeave(peerId) ==
    /\ peerId \in roomPeers
    /\ roomPeers' = roomPeers \ {peerId}
    /\ connectionLast' = ConnectionCall("roomPeerLeave", peerId)
    /\ UNCHANGED <<callState, callPeers, statsPending, peerConnections>>

\* The call up to its await: getStats is called on every peer of the room.
\* Promise.all of no promise is fulfilled at once.
\* Faulty variant: the record of the call before is filled in further.
getPeerConnectionTypesCached ==
    /\ callState # "pending"
    /\ statsPending = {}
    /\ callPeers' = roomPeers
    /\ statsPending' = roomPeers
    /\ peerConnections' = peerConnections
    /\ callState' = IF roomPeers = {} THEN "fulfilled" ELSE "pending"
    /\ connectionLast' = ConnectionCall("getPeerConnectionTypes", Null)
    /\ UNCHANGED roomPeers

getPeerConnectionTypes ==
    /\ callState # "pending"
    /\ statsPending = {}
    /\ callPeers' = roomPeers
    /\ statsPending' = roomPeers
    /\ peerConnections' = EmptyMap
    /\ callState' = IF roomPeers = {} THEN "fulfilled" ELSE "pending"
    /\ connectionLast' = ConnectionCall("getPeerConnectionTypes", Null)
    /\ UNCHANGED roomPeers

\* getStats of one peer is fulfilled: its callback classifies the peer; the
\* call returns peerConnections once every callback has.
getStatsFulfilled(peerId, stats) ==
    /\ peerId \in statsPending
    /\ statsPending' = statsPending \ {peerId}
    /\ peerConnections' = MapSet(peerConnections, peerId, connectionType(stats))
    /\ callState' = IF callState = "pending" /\ statsPending' = {}
                    THEN "fulfilled" ELSE callState
    /\ connectionLast' = ConnectionCall("getStatsFulfilled", peerId)
    /\ UNCHANGED <<roomPeers, callPeers>>

\* getStats of one peer rejects: await throws in its callback, Promise.all
\* rejects and so does the call; the other callbacks still run.
getStatsRejected(peerId) ==
    /\ peerId \in statsPending
    /\ statsPending' = statsPending \ {peerId}
    /\ callState' = IF callState = "pending" THEN "rejected" ELSE callState
    /\ connectionLast' = ConnectionCall("getStatsRejected", peerId)
    /\ UNCHANGED <<roomPeers, callPeers, peerConnections>>

ConnectionNext ==
    \/ /\ \E p \in Peers : roomPeerJoin(p)
       /\ UNCHANGED exceptConnections
    \/ /\ \E p \in Peers : roomPeerLeave(p)
       /\ UNCHANGED exceptConnections
    \/ /\ getPeerConnectionTypes
       /\ UNCHANGED exceptConnections
    \/ /\ \E p \in Peers, r \in StatsReports : getStatsFulfilled(p, r)
       /\ UNCHANGED exceptConnections
    \/ /\ \E p \in Peers : getStatsRejected(p)
       /\ UNCHANGED exceptConnections

ConnectionSpec == Init /\ [][ConnectionNext]_connectionVars

\* The classification on its own: the body of the callback after its await,
\* applied to any report.
classify ==
    /\ classification = Null
    /\ classification' = connectionType(statsReport)
    /\ UNCHANGED statsReport

ClassifyInit ==
    /\ ManagersInit
    /\ statsReport \in StatsReports
    /\ classification = Null
    /\ RtcInit

ClassifyNext == classify /\ UNCHANGED exceptClassify

ClassifySpec == ClassifyInit /\ [][ClassifyNext]_classifyVars

ConnectionTypeOK ==
    /\ roomPeers \subseteq Peers
    /\ statsPending \subseteq callPeers
    /\ DOMAIN peerConnections \subseteq callPeers \ statsPending
    /\ callState \in {"idle", "pending", "fulfilled", "rejected"}
    /\ callState = "pending" => statsPending # {}

\* ===================================================================
\* Properties
\* ===================================================================
Stored(peerId) == peerId \in DOMAIN verificationMap

\* The step is the handling of a response from peerId.
ResponseFrom(call, peerId) == call.op = "handleRawTokenReceived" /\ call.peerId = peerId

\* The remote peer holds the private key paired with the key of the session's challenge.
Decryptable(metadata) ==
    CanDecrypt(PrivateKeyOf(metadata.peerId), base64ToArrayBuffer(metadata.encryptedLocalToken))

\* C1: a timer armed by a session that was replaced while VERIFYING never
\* changes the state of the session that replaced it.
C1_SupersededTimerIsNoOp ==
    [][\A p \in Peers :
          ( /\ last'.op = "handleVerificationTimeout"
            /\ last'.peerId = p
            /\ last'.timer \in superseded
            /\ Stored(p)
            /\ verificationMap[p].timeoutTimer # last'.timer )
          => ( /\ p \in DOMAIN verificationMap'
               /\ verificationMap'[p].state = verificationMap[p].state )]_vars

\* C2: a session that its own timer moved from VERIFYING to UNVERIFIED stays
\* UNVERIFIED, whatever arrives later, until it is removed or replaced.
C2_TimeoutIsFinal ==
    \A p \in expired : Stored(p) /\ verificationMap[p].state = UNVERIFIED

\* C3: a response from P with the stored session's request id and its local
\* token makes the session VERIFIED and isVerified(P) true.
C3_MatchingResponseVerifies ==
    [][\A p \in Peers :
          ( /\ ResponseFrom(last', p)
            /\ Stored(p)
            /\ last'.requestId = verificationMap[p].requestId
            /\ last'.token = verificationMap[p].localToken )
          => ( /\ p \in DOMAIN verificationMap'
               /\ verificationMap'[p].state = VERIFIED
               /\ isVerified(p)' )]_vars

C3_Witness ==
    \E p \in Peers :
        /\ ResponseFrom(last, p)
        /\ Stored(p)
        /\ last.requestId = verificationMap[p].requestId
        /\ last.token = verificationMap[p].localToken
        /\ isVerified(p)

\* C4: a session becomes VERIFIED only by a response from its own peer that
\* carries its request id and its local token, and only if that peer holds the
\* private key paired with the public key the challenge was encrypted under.
C4_VerifiedOnlyByKeyHolder ==
    [][\A p \in Peers :
          ( /\ p \in DOMAIN verificationMap'
            /\ verificationMap'[p].state = VERIFIED
            /\ ~( /\ Stored(p)
                  /\ verificationMap[p].state = VERIFIED
                  /\ verificationMap[p].requestId = verificationMap'[p].requestId ) )
          => ( /\ ResponseFrom(last', p)
               /\ Stored(p)
               /\ last'.requestId = verificationMap[p].requestId
               /\ last'.token = verificationMap[p].localToken
               /\ Decryptable(verificationMap[p]) )]_vars

\* A peer is VERIFIED, and stays so after another peer answered with its request id.
C4_Witness ==
    \E p \in Peers : \E q \in Peers \ {p} :
        /\ isVerified(p)
        /\ Decryptable(verificationMap[p])
        /\ ResponseFrom(last, q)
        /\ last.requestId = verificationMap[p].requestId

\* C5: a response from P with another request id than the stored session's
\* makes the session UNVERIFIED, also with the right token, and nothing is thrown.
C5_StaleRequestIdUnverifies ==
    [][\A p \in Peers :
          ( /\ ResponseFrom(last', p)
            /\ Stored(p)
            /\ last'.requestId # verificationMap[p].requestId )
          => ( /\ p \in DOMAIN verificationMap'
               /\ verificationMap'[p].state = UNVERIFIED
               /\ last'.exc = "none" )]_vars

C5_Witness ==
    \E p \in Peers :
        /\ ResponseFrom(last, p)
        /\ Stored(p)
        /\ last.requestId # verificationMap[p].requestId
        /\ last.token = verificationMap[p].localToken
        /\ verificationMap[p].timeoutTimer \in DOMAIN timers
        /\ verificationMap[p].state = UNVERIFIED

\* C6: a response from P with the session's request id and another token than
\* its local token makes the session UNVERIFIED and cancels the session's timer.
C6_WrongTokenUnverifies ==
    [][\A p \in Peers :
          ( /\ ResponseFrom(last', p)
            /\ Stored(p)
            /\ last'.requestId = verificationMap[p].requestId
            /\ last'.token # verificationMap[p].localToken )
          => ( /\ p \in DOMAIN verificationMap'
               /\ verificationMap'[p].state = UNVERIFIED
               /\ verificationMap[p].timeoutTimer \notin DOMAIN timers' )]_vars

C6_Witness ==
    \E p \in Peers :
        /\ ResponseFrom(last, p)
        /\ Stored(p)
        /\ last.requestId = verificationMap[p].requestId
        /\ last.token # verificationMap[p].localToken
        /\ verificationMap[p].timeoutTimer \notin DOMAIN timers
        /\ verificationMap[p].state = UNVERIFIED

\* C7: a peer without a session reads as UNVERIFIED and not verified, and
\* isVerified agrees with getVerificationState for every peer.
C7_NoSessionIsUnverified ==
    \A p \in Peers :
        /\ ~Stored(p) => (getVerificationState(p) = UNVERIFIED /\ ~isVerified(p))
        /\ isVerified(p) <=> getVerificationState(p) = VERIFIED
        /\ isVerified(p) <=> (Stored(p) /\ verificationMap[p].state = VERIFIED)

\* A peer that was sent a challenge has no session any more, while another
\* peer's session is VERIFYING.
C7_Witness ==
    \E p \in Peers : \E q \in Peers \ {p} :
        /\ ~Stored(p)
        /\ \E m \in sentEncryptedToken : m.to = p
        /\ Stored(q)
        /\ verificationMap[q].state = VERIFYING

C9_ResponderIsStateless ==
    [][\A p \in Peers :
          (last'.op = "handleEncryptedTokenReceived" /\ last'.peerId = p)
          => ( /\ Stored(p) <=> p \in DOMAIN verificationMap'
               /\ Stored(p) => verificationMap'[p] = verificationMap[p]
               /\ timers' = timers
               /\ last'.token # Unknown =>
                     \E m \in sentRawToken' :
                         m.to = p /\ m.decryptedToken = last'.token )]_vars

\* C10: a request that cannot be decrypted is answered by nothing and throws
\* nothing, and a VERIFYING session whose challenge its peer cannot decrypt,
\* and to which no response is delivered, leaves VERIFYING only by its own timer.
C10_FailureIsSilent ==
    [][\A p \in Peers :
          /\ (last'.op = "handleEncryptedTokenReceived" /\ last'.peerId = p
                 /\ last'.token = Unknown)
             => (sentRawToken' = sentRawToken /\ last'.exc = "none")
          /\ ( /\ Stored(p)
               /\ verificationMap[p].state = VERIFYING
               /\ ~Decryptable(verificationMap[p])
               /\ p \in DOMAIN verificationMap'
               /\ verificationMap'[p].requestId = verificationMap[p].requestId
               /\ verificationMap'[p].state # VERIFYING
               /\ ~ResponseFrom(last', p) )
             => ( /\ last'.op = "handleVerificationTimeout"
                  /\ last'.timer = verificationMap[p].timeoutTimer )]_vars

\* A pending timer is the timer of the session now stored for its peer, and
\* that session is VERIFYING.
TimerIsLive(handle) ==
    LET peerId == timers[handle]
    IN  /\ Stored(peerId)
        /\ verificationMap[peerId].timeoutTimer = handle
        /\ verificationMap[peerId].state = VERIFYING

\* C11: a timer that fires is pending before and gone after; a response that
\* takes the session of P out of VERIFYING (also one with another request id)
\* cancels that session's timer; and every pending timer is the timer of the
\* session stored for its peer, which is VERIFYING.
C11_PendingTimersAreLive ==
    /\ [][last'.op = "handleVerificationTimeout"
             => (last'.timer \in DOMAIN timers /\ last'.timer \notin DOMAIN timers')]_vars
    /\ [][\A p \in Peers :
             ( /\ ResponseFrom(last', p)
               /\ Stored(p)
               /\ verificationMap[p].state = VERIFYING
               /\ p \in DOMAIN verificationMap'
               /\ verificationMap'[p].state # VERIFYING )
             => verificationMap[p].timeoutTimer \notin DOMAIN timers']_vars
    /\ [](\A h \in DOMAIN timers : TimerIsLive(h))

\* C12: a response from P while no session is stored for P creates no session,
\* changes no session, key or timer, sends nothing, and P still reads as UNVERIFIED.
C12_NoSessionResponseIgnored ==
    [][\A p \in Peers :
          (ResponseFrom(last', p) /\ ~Stored(p))
          => ( /\ verificationMap' = verificationMap
               /\ publicKeyMap' = publicKeyMap
               /\ timers' = timers
               /\ pendingEncrypt' = pendingEncrypt
               /\ sentEncryptedToken' = sentEncryptedToken
               /\ sentRawToken' = sentRawToken
               /\ getVerificationState(p)' = UNVERIFIED
               /\ last'.exc = "none" )]_vars

\* A peer without a session answered with the request id of another peer's
\* session, which is still VERIFYING.
C12_Witness ==
    \E p \in Peers : \E q \in Peers \ {p} :
        /\ ResponseFrom(last, p)
        /\ ~Stored(p)
        /\ Stored(q)
        /\ verificationMap[q].state = VERIFYING
        /\ last.requestId = verificationMap[q].requestId

\* A task that ran to its end, or that cleanup removed from the queue.
Over(status, task) == status[task] \in {"done", "failed", "dropped"}

\* C13: when the attach of an addStream call starts, the attach and the sleep
\* of every earlier addStream call are over (the attach has completed and the
\* delay has run in full, or cleanup dropped them): attaches start in call
\* order, each after the full delay of the one before.
C13_AttachAfterEarlierDelay ==
    [][\A t \in streamLast'.started :
          t.kind = "attach"
          => \A u \in DOMAIN taskStatus' :
                 u.call < t.call => Over(taskStatus', u)]_streamVars

\* C14: at most one task is executing, that is, at most one draining loop is
\* suspended at its await.
C14_OneTaskAtATime == Cardinality(Running(taskStatus)) <= 1

QueuedTasks == {streamQueue[i] : i \in 1..Len(streamQueue)}

\* C15: cleanup empties the queue; a task that was in the queue at a cleanup
\* never starts afterwards; and cleanup leaves the executing tasks executing:
\* a task stops executing only when its own promise settles.
C15_CleanupDropsQueuedOnly ==
    /\ [][streamLast'.op = "cleanup"
             => ( /\ streamQueue' = <<>>
                  /\ \A t \in QueuedTasks : taskStatus'[t] = "dropped"
                  /\ Running(taskStatus') = Running(taskStatus) )]_streamVars
    /\ [][\A t \in DOMAIN taskStatus :
             /\ taskStatus[t] = "dropped"
                   => (taskStatus'[t] = "dropped" /\ t \notin QueuedTasks')
             /\ (t \in Running(taskStatus) /\ t \notin Running(taskStatus'))
                   => ( /\ streamLast'.op \in {"taskResolved", "taskRejected"}
                        /\ streamLast'.task = {t}
                        /\ taskStatus'[t] \in {"done", "failed"} )]_streamVars

\* The attach that was executing when cleanup dropped its sleep has completed,
\* after a later addStream call was made.
C15_Witness ==
    \E t \in DOMAIN taskStatus :
        /\ t.kind = "attach"
        /\ streamLast.op = "taskResolved"
        /\ streamLast.task = {t}
        /\ taskStatus[Task("sleep", t.call, t.stream)] = "dropped"
        /\ addCalls > t.call

\* C16: removeStream hands the stream to the transport's removeStream in the
\* same step, whatever the queue holds and whatever is executing, and leaves
\* the queue, the processing flag and every task as they were.
C16_RemoveStreamBypassesQueue ==
    [][streamLast'.op = "removeStream"
          => ( /\ streamLast'.detached = {streamLast'.stream}
               /\ streamLast'.started = {}
               /\ streamQueue' = streamQueue
               /\ isProcessingPendingStreams' = isProcessingPendingStreams
               /\ taskStatus' = taskStatus )]_streamVars

\* removeStream ran while an attach was executing and other tasks were queued.
C16_Witness ==
    /\ streamLast.op = "removeStream"
    /\ streamLast.detached # {}
    /\ isProcessingPendingStreams
    /\ Len(streamQueue) > 1
    /\ \E t \in Running(taskStatus) : t.kind = "attach" /\ t.stream = streamLast.stream

\* C17: makeAction for arguments for which a handle was returned and nothing
\* was disposed since returns that same handle and calls room.makeAction no
\* further time; otherwise (first call, or after dispose) it creates the
\* transport channel once and returns a handle that never existed before.
C17_MakeActionMemoized ==
    [][actionLast'.op = "makeAction"
          => LET k == actionLast'.args
                 h == actionLast'.handle
             IN  /\ k \in DOMAIN undisposed
                       => ( /\ h = undisposed[k]
                            /\ ~actionLast'.created
                            /\ roomActions' = roomActions
                            /\ tuples' = tuples )
                 /\ k \notin DOMAIN undisposed
                       => ( /\ h \notin DOMAIN tuples
                            /\ h \in DOMAIN tuples'
                            /\ actionLast'.created
                            /\ roomActions' = [roomActions EXCEPT
                                                  ![actionLast'.name] = @ + 1] )]_actionVars

\* The handle created after the dispose of an earlier handle for the same
\* arguments was returned again by a further makeAction call.
C17_Witness ==
    /\ actionLast.op = "makeAction"
    /\ ~actionLast.created
    /\ roomActions[actionLast.name] > 1
    /\ \E h \in DOMAIN tuples :
          h < actionLast.handle /\ tuples[h].args = actionLast.args

\* The number of calls of a handler in a sequence of handler calls.
Calls(invoked, handler) ==
    Cardinality({i \in 1..Len(invoked) : invoked[i].handler = handler})

\* The handler table a trigger reads.
TableOf(op) ==
    IF op = "triggerPeerJoin" THEN peerJoinHandlers
    ELSE IF op = "triggerPeerLeave" THEN peerLeaveHandlers
    ELSE peerStreamHandlers

\* C18: a trigger calls each handler once for every hook type under which it
\* is registered for that event type, whatever the hook type, always with the
\* event's arguments, and makes no other call: a handler registered only for
\* another event type is not called.
C18_TriggerReachesEveryHookType ==
    [][eventLast'.op \in {"triggerPeerJoin", "triggerPeerLeave", "triggerPeerStream"}
          => LET map == TableOf(eventLast'.op)
                 invoked == eventLast'.invoked
             IN  /\ \A h \in Handlers :
                       Calls(invoked, h)
                           = Cardinality({c \in HookTypes : <<c, h>> \in Registrations(map)})
                 /\ \A i \in 1..Len(invoked) : invoked[i].args = eventLast'.args
                 /\ Len(invoked) = Cardinality(Registrations(map))]_eventVars

\* A join was delivered twice to a handler registered for it under two hook
\* types, and not to the handler registered for leave only.
C18_Witness ==
    \E h \in Handlers : \E g \in Handlers \ {h} :
        /\ eventLast.op = "triggerPeerJoin"
        /\ Calls(eventLast.invoked, h) = 2
        /\ Calls(eventLast.invoked, g) = 0
        /\ <<"NEW_PEER", h>> \in Registrations(peerJoinHandlers)
        /\ <<"STREAM", h>> \in Registrations(peerJoinHandlers)
        /\ <<"NEW_PEER", g>> \in Registrations(peerLeaveHandlers)

\* The report holds a candidate pair that succeeded and whose local candidate
\* is in the report with type relay.
HasSucceededRelayPair(stats) ==
    \E i \in 1..Len(stats.pairs) :
        /\ stats.pairs[i].state = "succeeded"
        /\ stats.pairs[i].localCandidateId \in DOMAIN stats.candidates
        /\ stats.candidates[stats.pairs[i].localCandidateId] = "relay"

\* C19: the type given to a report is RELAY exactly when the report holds a
\* succeeded candidate pair whose local candidate has type relay, and DIRECT
\* in every other case.
C19_RelayIffSucceededRelayPair ==
    classification # Null
        => /\ classification \in {RELAY, DIRECT}
           /\ classification = RELAY <=> HasSucceededRelayPair(statsReport)

\* C20: a call never rejects: once every fetch of a call has settled, however
\* it settled, the call is fulfilled (with the types recorded for the peers
\* whose fetch was fulfilled).
C20_FetchFailureIsLocal ==
    /\ callState # "rejected"
    /\ (callState # "idle" /\ statsPending = {}) => callState = "fulfilled"

\* The number of times a value occurs in an array.
Occurrences(array, x) == Cardinality({i \in 1..Len(array) : array[i] = x})

\* C21: the array getVerifiedPeers returns holds every peer whose stored
\* session is VERIFIED exactly once and no other peer: P is in it exactly when
\* isVerified(P).
C21_VerifiedPeersAreTheVerified ==
    LET array == verified(verificationMap, DOMAIN verificationMap)
    IN  /\ \A p \in Peers : Occurrences(array, p) = IF isVerified(p) THEN 1 ELSE 0
        /\ {array[i] : i \in 1..Len(array)} = getVerifiedPeers

\* One peer is VERIFIED while the session of the other peer is stored and is
\* not VERIFIED.
C21_Witness ==
    \E p \in Peers : \E q \in Peers \ {p} :
        /\ isVerified(p)
        /\ Stored(q)
        /\ ~isVerified(q)
        /\ verified(verificationMap, DOMAIN verificationMap) = <<p>>

\* C22: a stored session changes its state only from VERIFYING, to VERIFIED or
\* to UNVERIFIED: a session that is VERIFIED or UNVERIFIED keeps that state for
\* as long as it is stored, whatever request, response or timer comes later.
C22_StateLeavesOnlyVerifying ==
    [][\A p \in Peers :
          ( /\ Stored(p)
            /\ p \in DOMAIN verificationMap'
            /\ verificationMap'[p].requestId = verificationMap[p].requestId
            /\ verificationMap'[p].state # verificationMap[p].state )
          => ( /\ verificationMap[p].state = VERIFYING
               /\ verificationMap'[p].state \in {VERIFIED, UNVERIFIED} )]_vars

\* C23: the table holds one session per peer, under that peer's id.  When an
\* initiateVerification call completes, the session stored for its peer is the
\* call's own: its request id and its token, which differ from those of the
\* session it replaced, in state VERIFYING.  A response from P that carries
\* another request id or another token than the stored session's (those of a
\* replaced session, for one) never leaves the session VERIFIED.
C23_InitiateReplacesSession ==
    [][\A p \in Peers :
          /\ p \in DOMAIN verificationMap' => verificationMap'[p].peerId = p
          /\ (last'.op = "initiateVerificationResume" /\ last'.peerId = p)
             => \E c \in pendingEncrypt :
                   /\ c.peerId = p
                   /\ c.requestId = last'.requestId
                   /\ p \in DOMAIN verificationMap'
                   /\ verificationMap'[p].requestId = c.requestId
                   /\ verificationMap'[p].localToken = c.localToken
                   /\ verificationMap'[p].state = VERIFYING
                   /\ Stored(p) => ( /\ verificationMap[p].requestId # c.requestId
                                     /\ verificationMap[p].localToken # c.localToken )
          /\ ( /\ ResponseFrom(last', p)
               /\ Stored(p)
               /\ \/ last'.requestId # verificationMap[p].requestId
                  \/ last'.token # verificationMap[p].localToken )
             => ( /\ p \in DOMAIN verificationMap'
                  /\ verificationMap'[p].state # VERIFIED )]_vars

\* P answered the request of a session that a second initiateVerification call
\* had replaced, with that request's id and token: the stored session is not
\* VERIFIED.
C23_Witness ==
    \E p \in Peers :
        /\ ResponseFrom(last, p)
        /\ Stored(p)
        /\ last.requestId \in SeenRequestIds(p)
        /\ last.requestId # verificationMap[p].requestId
        /\ last.token \in KnownTokens(p)
        /\ last.token # verificationMap[p].localToken
        /\ verificationMap[p].state = UNVERIFIED

\* The session stored for a peer is the one with this request id and is VERIFYING.
Verifying(peerId, requestId) ==
    /\ Stored(peerId)
    /\ verificationMap[peerId].requestId = requestId
    /\ verificationMap[peerId].state = VERIFYING

\* C24: when pending timers fire, every stored session leaves VERIFYING: it
\* becomes VERIFIED or UNVERIFIED, or it is deleted or replaced, also when its
\* peer never answers.
C24_SessionLeavesVerifying ==
    \A p \in Peers : \A r \in TimerHandles :
        Verifying(p, r) ~> ~Verifying(p, r)

\* The session of a peer that cannot decrypt its challenge, and so never
\* answers it, was made UNVERIFIED by its own timer.
C24_Witness ==
    \E p \in Peers :
        /\ last.op = "handleVerificationTimeout"
        /\ last.peerId = p
        /\ p \in expired
        /\ ~Decryptable(verificationMap[p])
        /\ verificationMap[p].timeoutTimer = last.timer
        /\ verificationMap[p].state = UNVERIFIED

\* The engine holds no session, no pending timer and no registered key for the peer.
HoldsNothing(peerId) ==
    /\ ~Stored(peerId)
    /\ peerId \notin DOMAIN publicKeyMap
    /\ \A h \in DOMAIN timers : timers[h] # peerId

\* C25: right after removePeer(P) the engine holds no session, no pending timer
\* and no registered key for P, and the step that follows keeps it so unless it
\* is a new initiateVerification or registerPublicKey call for P: in particular
\* the resumption of an initiateVerification(P) call that was suspended at its
\* encryption when removePeer ran stores nothing for P.
C25_RemovedPeerStaysForgotten ==
    /\ [](\A p \in Peers :
             (last.op = "removePeer" /\ last.peerId = p) => HoldsNothing(p))
    /\ [][\A p \in Peers :
             ( /\ last.op = "removePeer"
               /\ last.peerId = p
               /\ ~( /\ last'.op \in {"initiateVerification", "registerPublicKey"}
                     /\ last'.peerId = p ) )
             => HoldsNothing(p)']_vars

\* C26: an engine whose own session for P is VERIFYING and that receives P's
\* request, encrypted under its own public key, answers P with the request's
\* id and the decrypted token (without which P's session for this engine cannot
\* become VERIFIED) and leaves its own session for P and that session's timer
\* as they were, so that P's answer can still verify it.
C26_MutualVerificationCompletes ==
    [][\A p \in Peers :
          ( /\ last'.op = "handleEncryptedTokenReceived"
            /\ last'.peerId = p
            /\ Stored(p)
            /\ verificationMap[p].state = VERIFYING )
          => ( /\ \E d \in InboundRequests : \E m \in sentRawToken' :
                     /\ d.requestId = last'.requestId
                     /\ m.to = p
                     /\ m.requestId = d.requestId
                     /\ m.decryptedToken = base64ToArrayBuffer(d.encryptedToken).plain
               /\ p \in DOMAIN verificationMap'
               /\ verificationMap'[p] = verificationMap[p]
               /\ timers' = timers )]_vars

\* The pending timers whose callback captured the peer.
TimersOf(t, peerId) == {h \in DOMAIN t : t[h] = peerId}

\* C27: a call or event for peer P (registerPublicKey, initiateVerification up
\* to and after its await, an inbound request, an inbound response, a timer
\* callback, removePeer) leaves the session, the pending timers and the
\* registered key of every other peer Q as they were.
C27_PeersAreIndependent ==
    [][\A p \in Peers : \A q \in Peers \ {p} :
          ( /\ last'.peerId = p
            /\ last'.op \in {"registerPublicKey", "initiateVerification",
                             "initiateVerificationResume", "handleEncryptedTokenReceived",
                             "handleRawTokenReceived", "handleVerificationTimeout",
                             "removePeer"} )
          => ( /\ Stored(q) <=> q \in DOMAIN verificationMap'
               /\ Stored(q) => verificationMap'[q] = verificationMap[q]
               /\ q \in DOMAIN publicKeyMap <=> q \in DOMAIN publicKeyMap'
               /\ q \in DOMAIN publicKeyMap => publicKeyMap'[q] = publicKeyMap[q]
               /\ TimersOf(timers', q) = TimersOf(timers, q) )]_vars

\* The timer of one peer's session fired while the session of the other peer
\* was VERIFYING with its timer pending, and that session still is.
C27_Witness ==
    \E p \in Peers : \E q \in Peers \ {p} :
        /\ last.op = "handleVerificationTimeout"
        /\ last.peerId = p
        /\ p \in expired
        /\ Stored(q)
        /\ verificationMap[q].state = VERIFYING
        /\ verificationMap[q].timeoutTimer \in TimersOf(timers, q)
        /\ q \in DOMAIN publicKeyMap

\* C28: no request is in flight for a call that has not yet stored its
\* session, so no response can be processed against a session that is still to
\* be stored; and when an initiateVerification call completes, its session is
\* stored as VERIFYING with its timer armed and its request is on its way to
\* the session's peer.
C28_SessionStoredBeforeRequestSent ==
    /\ \A m \in sentEncryptedToken : \A c \in pendingEncrypt : c.requestId # m.requestId
    /\ last.op = "initiateVerificationResume"
          => ( /\ Verifying(last.peerId, last.requestId)
               /\ verificationMap[last.peerId].timeoutTimer = last.timer
               /\ last.timer \in TimersOf(timers, last.peerId)
               /\ \E m \in sentEncryptedToken :
                     m.to = last.peerId /\ m.requestId = last.requestId )

\* P's response to the request of a completed call was processed and verified
\* the stored session while a second call for P was still suspended at its
\* encryption, with nothing of it stored or sent.
C28_Witness ==
    \E p \in Peers : \E c \in pendingEncrypt :
        /\ c.peerId = p
        /\ ResponseFrom(last, p)
        /\ last.requestId \in SeenRequestIds(p)
        /\ last.requestId # c.requestId
        /\ isVerified(p)
        /\ verificationMap[p].requestId = last.requestId

Queued(task) == task \in DOMAIN taskStatus /\ taskStatus[task] = "queued"

\* C30: every attach that an addStream call enqueued leaves the queue: it is
\* started, also when an earlier attach has failed, unless cleanup drops it.
C30_AttachStartsDespiteFailure ==
    \A t \in Tasks :
        (t.kind = "attach" /\ Queued(t)) ~> ~Queued(t)

\* C31: with no cleanup and no failing attach, once the addStream calls have
\* stopped the queue becomes and stays empty with the flag reset and every
\* enqueued task done; a task is started only from the queue, which it then
\* leaves, and never again once it has run; and whenever no draining loop is
\* suspended at a task the queue is empty and the flag is reset.
C31_QueueDrains ==
    /\ <>[]( /\ streamQueue = <<>>
             /\ ~isProcessingPendingStreams
             /\ \A t \in DOMAIN taskStatus : taskStatus[t] = "done" )
    /\ [][\A t \in DOMAIN taskStatus' :
             /\ t \in streamLast'.started
                   => ( /\ t \in DOMAIN taskStatus => taskStatus[t] = "queued"
                        /\ t \notin QueuedTasks' )
             /\ (t \in DOMAIN taskStatus /\ taskStatus[t] = "done")
                   => taskStatus'[t] = "done"]_streamVars
    /\ [](Running(taskStatus) = {}
             => (streamQueue = <<>> /\ ~isProcessingPendingStreams))

\* Several addStream calls were made and the last of their tasks has just
\* run: every task is done, the queue is empty and the flag is reset.
C31_Witness ==
    /\ addCalls > 1
    /\ streamLast.op = "taskResolved"
    /\ streamLast.started = {}
    /\ streamQueue = <<>>
    /\ ~isProcessingPendingStreams
    /\ \A t \in DOMAIN taskStatus : taskStatus[t] = "done"

\* The registrations of a table without those under a hook type.
Without(map, hookType) == {r \in Registrations(map) : r[1] # hookType}

\* C32: flushHookType(c) removes the join, leave and stream handlers registered
\* under c and keeps every registration under another hook type; offPeerJoin,
\* offPeerLeave and offPeerStream do so in the table of their own event type
\* and leave the other two tables as they were; and a trigger calls as many
\* handlers as its table then holds registrations.
C32_FlushRemovesOneHookType ==
    [][LET c == eventLast'.hookType
           op == eventLast'.op
       IN  /\ op = "flushHookType"
                 => ( /\ Registrations(peerJoinHandlers') = Without(peerJoinHandlers, c)
                      /\ Registrations(peerLeaveHandlers') = Without(peerLeaveHandlers, c)
                      /\ Registrations(peerStreamHandlers') = Without(peerStreamHandlers, c) )
           /\ op = "offPeerJoin"
                 => ( /\ Registrations(peerJoinHandlers') = Without(peerJoinHandlers, c)
                      /\ peerLeaveHandlers' = peerLeaveHandlers
                      /\ peerStreamHandlers' = peerStreamHandlers )
           /\ op = "offPeerLeave"
                 => ( /\ Registrations(peerLeaveHandlers') = Without(peerLeaveHandlers, c)
                      /\ peerJoinHandlers' = peerJoinHandlers
                      /\ peerStreamHandlers' = peerStreamHandlers )
           /\ op = "offPeerStream"
                 => ( /\ Registrations(peerStreamHandlers') = Without(peerStreamHandlers, c)
                      /\ peerJoinHandlers' = peerJoinHandlers
                      /\ peerLeaveHandlers' = peerLeaveHandlers )
           /\ op \in {"triggerPeerJoin", "triggerPeerLeave", "triggerPeerStream"}
                 => \A h \in Handlers :
                        Calls(eventLast'.invoked, h)
                            = Cardinality({r \in Registrations(TableOf(op)) : r[2] = h})
      ]_eventVars

\* A hook type was flushed while handlers of another hook type were registered
\* for join and for leave: those are still registered, and nothing is left
\* under the flushed hook type.
C32_Witness ==
    \E c \in HookTypes :
        /\ eventLast.op = "flushHookType"
        /\ eventLast.hookType = c
        /\ Without(peerJoinHandlers, c) # {}
        /\ Without(peerLeaveHandlers, c) # {}
        /\ \A map \in {peerJoinHandlers, peerLeaveHandlers, peerStreamHandlers} :
               c \notin DOMAIN map

\* The handlers the transport calls for a payload of an action name.
HandlersOf(map, name) == IF name \in DOMAIN map THEN map[name] ELSE {}

Dispatched(name) == HandlersOf(receivers, name)

C34_DisposeRemovesOnlyOwnEntry ==
    [][(actionLast'.op = "dispose" /\ actionLast'.name \in DOMAIN actions
                                   /\ actions[actionLast'.name] # actionLast'.handle)
          => actions' = actions]_actionVars

\* The action names for which makeAction was called since the last removal
\* (cleanup member of one of the name's handles, or ActionManager.cleanup).
MadeSinceRemoval == {actionName(k[2], k[1]) : k \in DOMAIN undisposed}

\* C35: the memo table holds an action name exactly when makeAction was called
\* for it since its last removal, and the handle it holds is the one returned
\* since; room.makeAction is called in exactly the steps that put a name into
\* the table, once; and ActionManager.cleanup leaves the table empty.
C35_TableHoldsMadeSinceRemoval ==
    /\ [](DOMAIN actions = MadeSinceRemoval)
    /\ [](\A k \in DOMAIN undisposed : actions[actionName(k[2], k[1])] = undisposed[k])
    /\ [][\A n \in DOMAIN roomActions :
             roomActions'[n] = IF n \notin DOMAIN actions /\ n \in DOMAIN actions'
                               THEN roomActions[n] + 1
                               ELSE roomActions[n]]_actionVars
    /\ [][actionLast'.op = "cleanup" => actions' = EmptyMap]_actionVars
    /\ [](actionLast.op = "cleanup" => actions = EmptyMap)

\* ActionManager.cleanup emptied the table after handles for two names had
\* been created, one of the names twice (before and after a removal).
C35_Witness ==
    /\ actionLast.op = "cleanup"
    /\ actions = EmptyMap
    /\ \E n \in DOMAIN roomActions : roomActions[n] > 1
    /\ \E g \in DOMAIN tuples : \E h \in DOMAIN tuples : tuples[g].name # tuples[h].name

\* C36: two different (action, namespace) pairs never have the same action
\* name, for any member of the two enums; the handles held for two different
\* pairs are different handles, memoized under different names, each under the
\* name of its own pair; a registration through the handle of one pair leaves
\* the receive handler of every other pair's name alone; and an inbound
\* payload is handed to the handler registered for the name it carries.
C36_NamespacesAreSeparate ==
    /\ [](\A n1 \in Namespaces, n2 \in Namespaces :
            \A a1 \in PeerActionValues, a2 \in PeerActionValues :
               <<n1, a1>> # <<n2, a2>> => actionName(n1, a1) # actionName(n2, a2))
    /\ [](\A k1 \in DOMAIN undisposed, k2 \in DOMAIN undisposed :
            k1 # k2 => /\ undisposed[k1] # undisposed[k2]
                       /\ tuples[undisposed[k1]].name # tuples[undisposed[k2]].name)
    /\ [](\A k \in DOMAIN undisposed :
            /\ tuples[undisposed[k]].args = k
            /\ actions[actionName(k[2], k[1])] = undisposed[k])
    /\ [][(channelLast'.op = "receive" /\ channelLast' # channelLast)
            => \A h \in DOMAIN tuples :
                  tuples[h].name # channelLast'.name
                     => HandlersOf(receivers', tuples[h].name) = Dispatched(tuples[h].name)
       ]_<<actionVars, channelVars>>
    /\ [](channelLast.op = "inboundPayload"
            => channelLast.delivered = Dispatched(channelLast.name))

\* The group and the direct channel of MESSAGE are both memoized, under two
\* handles with a receive handler each, and a payload that arrived on the
\* group channel was handed to the group channel's handler only.
C36_Witness ==
    /\ <<"MESSAGE", "g">> \in DOMAIN undisposed
    /\ <<"MESSAGE", "dm">> \in DOMAIN undisposed
    /\ Dispatched(actionName("g", "MESSAGE")) = {"r1"}
    /\ Dispatched(actionName("dm", "MESSAGE")) = {"r2"}
    /\ channelLast.op = "inboundPayload"
    /\ channelLast.name = actionName("g", "MESSAGE")
    /\ channelLast.delivered = {"r1"}

\* ================================================================ PeerRoom.leave
\* leave(): the four managers are cleaned up, in this order and with nothing
\* in between, and then the room is left.
PeerRoom_leave ==
    /\ ActionManager_cleanup
    /\ StreamManager_cleanup
    /\ cleanup
    /\ flush
    /\ channelLast' = ChannelCall("leave", Null, Null, {})
    /\ UNCHANGED receivers

\* A room in use: verifications of one peer are started, resumed and timed out,
\* a channel is made, a stream is added, a join handler is registered, and the
\* room is left.
LeaveNext ==
    \/ /\ initiateVerification("p1", "k1")
       /\ UNCHANGED exceptVerification
    \/ /\ \E c \in pendingEncrypt : initiateVerificationResume(c)
       /\ UNCHANGED exceptVerification
    \/ /\ \E h \in DOMAIN timers : handleVerificationTimeout(h)
       /\ UNCHANGED exceptVerification
    \/ /\ makeAction("MESSAGE", "g")
       /\ UNCHANGED exceptActions
    \/ /\ addStream("s1")
       /\ UNCHANGED exceptStreams
    \/ /\ onPeerJoin("NEW_PEER", "h1")
       /\ UNCHANGED exceptEvents
    \/ /\ PeerRoom_leave
       /\ UNCHANGED <<connectionVars, classifyVars, rtcVars>>

leaveVars == <<vars, streamVars, actionVars, eventVars, channelVars>>

LeaveSpec == Init /\ [][LeaveNext]_leaveVars

\* The step is a call of leave().
LeaveStep ==
    /\ actionLast'.op = "cleanup"
    /\ streamLast'.op = "cleanup"
    /\ last'.op = "cleanup"
    /\ eventLast'.op = "flush"
    /\ channelLast'.op = "leave"

\* C37: when leave() reaches the transport's leave, and so when it returns,
\* the memo table and the stream queue are empty, the engine holds no session,
\* no registered key and no pending timer, of a stored or of a replaced
\* session, and no lifecycle handler is registered.
C37_LeaveLeavesNothing ==
    [][LeaveStep =>
          /\ actions' = EmptyMap
          /\ streamQueue' = <<>>
          /\ verificationMap' = EmptyMap
          /\ publicKeyMap' = EmptyMap
          /\ DOMAIN timers' = {}
          /\ peerJoinHandlers' = EmptyMap
          /\ peerLeaveHandlers' = EmptyMap
          /\ peerStreamHandlers' = EmptyMap]_leaveVars

\* C38: a getPeerConnectionTypes call reads the peers of the room at the time
\* it is called, into a record that starts empty; nothing but a new call
\* changes the peers a call answers for; and the record a call returns when
\* every getStats was fulfilled has one entry, DIRECT or RELAY, for each peer
\* that was connected when it was called and no other entry, whatever the call
\* before returned.
C38_TypesComputedPerCall ==
    /\ [][connectionLast'.op = "getPeerConnectionTypes" /\ connectionLast'.peerId = Null
             /\ connectionVars' # connectionVars
            => /\ callPeers' = roomPeers
               /\ peerConnections' = EmptyMap]_connectionVars
    /\ [][callPeers' # callPeers
            => connectionLast'.op = "getPeerConnectionTypes"]_connectionVars
    /\ [](callState = "fulfilled"
            => /\ DOMAIN peerConnections = callPeers
               /\ \A p \in callPeers : peerConnections[p] \in {DIRECT, RELAY})

\* A call returned an entry for a peer that had none in the record of the call
\* before, and no entry for a peer that had one there and has left since.
C38_Witness ==
    /\ callState = "fulfilled"
    /\ \E p \in connectionLast.earlier :
          p \notin DOMAIN peerConnections /\ p \notin roomPeers
    /\ \E q \in DOMAIN peerConnections : q \notin connectionLast.earlier

\* ====================================================== RTC configuration checks
\* new PeerRoom(roomId, {rtcConfig}): the configuration handed to joinRoom.
PeerRoom_constructor ==
    /\ rtcResult' = RtcCall("PeerRoom", validatedRtcConfig(rtcConfig), FALSE, <<>>)
    /\ UNCHANGED rtcConfig

\* rtcValidationManager.isValidRTCConfiguration(data)
quickValidation ==
    /\ rtcResult' = RtcCall("isValidRTCConfiguration", rtcConfig,
                            isValidRTCConfiguration(rtcConfig), <<>>)
    /\ UNCHANGED rtcConfig

\* rtcValidationManager.validateRTCConfiguration(data)
detailedValidation ==
    /\ LET result == validateRTCConfiguration(rtcConfig)
       IN  rtcResult' = RtcCall("validateRTCConfiguration", rtcConfig,
                                result.valid, result.errors)
    /\ UNCHANGED rtcConfig

ValidationInit ==
    /\ ManagersInit
    /\ statsReport = NoStats
    /\ classification = Null
    /\ rtcConfig \in RTCConfigurations(IceServersValues)
    /\ rtcResult = RtcCall("none", NotAnObject("undefined"), FALSE, <<>>)

ValidationNext ==
    \/ /\ PeerRoom_constructor
       /\ UNCHANGED exceptValidation
    \/ /\ quickValidation
       /\ UNCHANGED exceptValidation
    \/ /\ detailedValidation
       /\ UNCHANGED exceptValidation

ValidationSpec == ValidationInit /\ [][ValidationNext]_rtcVars

\* C39: the configuration the PeerRoom constructor hands to joinRoom is valid
\* for isValidRTCConfiguration: it is the configuration the caller handed over
\* when that one is valid, and the default configuration when it is invalid or
\* was not handed over.
C39_PassedConfigurationIsValid ==
    rtcResult.op = "PeerRoom"
        => /\ isValidRTCConfiguration(rtcResult.config)
           /\ rtcResult.config = IF isValidRTCConfiguration(rtcConfig)
                                 THEN rtcConfig
                                 ELSE createDefaultRTCConfiguration

\* The constructor was handed an object with a valid server and a bundle
\* policy that does not exist, and handed the default configuration on.
C39_Witness ==
    /\ rtcResult.op = "PeerRoom"
    /\ rtcConfig.type = "object"
    /\ rtcConfig.iceServers.type = "array"
    /\ Len(rtcConfig.iceServers.items) = 1
    /\ isValidIceServer(rtcConfig.iceServers.items[1])
    /\ rtcConfig.bundlePolicy = JsString("none")
    /\ rtcResult.config = createDefaultRTCConfiguration
    /\ rtcResult.config # rtcConfig

\* C40: validateRTCConfiguration(data).valid is true exactly when
\* isValidRTCConfiguration(data) is, and then it lists no error.
C40_ValidatorsAgree ==
    rtcResult.op = "validateRTCConfiguration"
        => /\ rtcResult.valid <=> isValidRTCConfiguration(rtcConfig)
           /\ rtcResult.valid => rtcResult.errors = <<>>

====
